---------------------------- MODULE Spec2Model ----------------------------
(***************************************************************************)
(* The MySQL wire-protocol engine of modules/mysql-simulator/index.js:     *)
(* the connection handler (framing, handshake, command dispatch), the SQL  *)
(* execution adapter, the prepared-statement registry of each connection   *)
(* and the process-wide database registry.                                 *)
(*                                                                         *)
(* Bytes are naturals 0..255, buffers and texts are sequences of bytes     *)
(* (ASCII only, so Buffer.toString("utf8") keeps the bytes).  One step of  *)
(* the model is one callback of the Node.js event loop together with the   *)
(* promise jobs it leaves behind, which Node runs before the next event.   *)
(***************************************************************************)
EXTENDS Integers, Sequences, FiniteSets, TLC

VARIABLES
    crashed,            \* the process was terminated by an uncaught exception
    queryCount,         \* state.queryCount
    databases,          \* state.databases, a Map in insertion order
    files,              \* the .sqlite files of the data directory and their tables
    nextConnectionId,   \* serverState.nextConnectionId
    listening,          \* the MySQL server listens: from server.listen to server.close
    connections,        \* the connection objects, by connection id
    clientPending,      \* bytes a client has sent that the socket has not delivered yet
    last,               \* what the last callback did (history, read by the properties)
    returnedIds,        \* the statement ids each client was sent in a prepare-OK (history)
    events              \* number of data events so far

vars == <<crashed, queryCount, databases, files, nextConnectionId, listening,
          connections, clientPending, last, returnedIds, events>>

(***************************************************************************)
(* Bounds of the model.                                                    *)
(***************************************************************************)
MaxConnections == 2
MaxEvents == 4
MaxRows == 2
MaxStatements == 2
MaxRecorded == 64       \* bytes of a payload the history keeps

(***************************************************************************)
(* Program constants.                                                      *)
(***************************************************************************)
MYSQL_COMMAND_QUIT == 1
MYSQL_COMMAND_INIT_DB == 2
MYSQL_COMMAND_QUERY == 3
MYSQL_COMMAND_PING == 14
MYSQL_COMMAND_STMT_PREPARE == 22
MYSQL_COMMAND_STMT_EXECUTE == 23
MYSQL_COMMAND_STMT_CLOSE == 25
MYSQL_TYPE_VAR_STRING == 253
MYSQL_TYPE_LONG == 3
MYSQL_TYPE_NULL == 6
MYSQL_TYPE_LONGLONG == 8
MYSQL_TYPE_TIMESTAMP == 7
MYSQL_TYPE_DATE == 10
MYSQL_TYPE_TIME == 11
MYSQL_TYPE_DATETIME == 12
MYSQL_TYPE_NEWDATE == 14

CLIENT_CONNECT_WITH_DB == 8
CLIENT_SECURE_CONNECTION == 32768
CLIENT_PLUGIN_AUTH_LENENC_CLIENT_DATA == 2097152

UINT16_MAX == 65535     \* the largest value Buffer.writeUInt16LE accepts

Null == <<-1>>          \* null, where the program expects a string
Undefined == -1         \* buffer[offset] outside the buffer
NaN == -2               \* what an offset becomes after adding undefined

(***************************************************************************)
(* Buffers and strings.                                                    *)
(***************************************************************************)
Min(a, b) == IF a < b THEN a ELSE b
Max(a, b) == IF a > b THEN a ELSE b

\* buffer.subarray(start, end) with 0-based, end-exclusive offsets, clamped
\* the way Buffer clamps them (NaN counts as 0).
subarray(buffer, start, end) ==
    LET s == Min(Max(start, 0), Len(buffer))
        e == Min(Max(end, 0), Len(buffer))
    IN  IF e <= s THEN << >> ELSE SubSeq(buffer, s + 1, e)

\* buffer.indexOf(value, byteOffset): 0-based index or -1; a NaN offset
\* searches the whole buffer.
indexOf(buffer, value, byteOffset) ==
    LET from == Max(byteOffset, 0)
        hits == {i \in 0..(Len(buffer) - 1) : i >= from /\ buffer[i + 1] = value}
    IN  IF hits = {} THEN -1 ELSE CHOOSE i \in hits : \A j \in hits : i <= j

\* buffer[offset]: the byte, or undefined outside the buffer.
byteAt(buffer, offset) ==
    IF offset >= 0 /\ offset < Len(buffer) THEN buffer[offset + 1] ELSE Undefined

\* value || 0
orZero(value) == IF value = Undefined THEN 0 ELSE value

\* buffer.readUIntLE(offset, n) for a range known to lie inside the buffer.
readUIntLE(buffer, offset, n) ==
    LET RECURSIVE go(_)
        go(i) == IF i = n THEN 0 ELSE buffer[offset + i + 1] + 256 * go(i + 1)
    IN  go(0)

\* The n little-endian bytes of value (Buffer.writeUIntLE).
writeUIntLE(value, n) == [i \in 1..n |-> (value \div (256 ^ (i - 1))) % 256]

\* flags & bit, for a single-bit mask.
HasBit(flags, bit) == (flags \div bit) % 2 = 1

IsSpace(b) == b \in {9, 10, 11, 12, 13, 32}
IsWordChar(b) == (b \in 48..57) \/ (b \in 65..90) \/ (b \in 97..122) \/ b = 95

RECURSIVE trimStart(_)
trimStart(s) == IF s # << >> /\ IsSpace(Head(s)) THEN trimStart(Tail(s)) ELSE s

RECURSIVE trimEnd(_)
trimEnd(s) ==
    IF s # << >> /\ IsSpace(s[Len(s)]) THEN trimEnd(SubSeq(s, 1, Len(s) - 1)) ELSE s

\* String.prototype.trim
trim(s) == trimEnd(trimStart(s))

\* String.prototype.toUpperCase (ASCII)
toUpperCase(s) == [i \in 1..Len(s) |-> IF s[i] \in 97..122 THEN s[i] - 32 ELSE s[i]]

toLowerCase(s) == [i \in 1..Len(s) |-> IF s[i] \in 65..90 THEN s[i] + 32 ELSE s[i]]

startsWith(s, prefix) ==
    Len(s) >= Len(prefix) /\ SubSeq(s, 1, Len(prefix)) = prefix

\* s.replace(/;$/, "")
stripOneSemicolon(s) ==
    IF s # << >> /\ s[Len(s)] = 59 THEN SubSeq(s, 1, Len(s) - 1) ELSE s

\* s.replace(/;+$/g, "")
RECURSIVE stripSemicolons(_)
stripSemicolons(s) ==
    IF s # << >> /\ s[Len(s)] = 59 THEN stripSemicolons(SubSeq(s, 1, Len(s) - 1)) ELSE s


(***************************************************************************)
(* Texts of the program and of the clients.                                *)
(***************************************************************************)
TXT_default == <<100, 101, 102, 97, 117, 108, 116>>                      \* "default"
TXT_USE_ == <<85, 83, 69, 32>>                                           \* "USE "
TXT_SHOW_DATABASES == <<83, 72, 79, 87, 32, 68, 65, 84, 65, 66, 65, 83, 69, 83>>
TXT_SHOW_TABLES == <<83, 72, 79, 87, 32, 84, 65, 66, 76, 69, 83>>        \* "SHOW TABLES"
TXT_DESCRIBE == <<68, 69, 83, 67, 82, 73, 66, 69>>                       \* "DESCRIBE"
TXT_SELECT == <<83, 69, 76, 69, 67, 84>>                                 \* "SELECT"
TXT_CREATE_DATABASE == <<67, 82, 69, 65, 84, 69, 32, 68, 65, 84, 65, 66, 65, 83, 69>>
TXT_CREATE == <<67, 82, 69, 65, 84, 69>>                                 \* "CREATE"
TXT_INSERT == <<73, 78, 83, 69, 82, 84>>                                 \* "INSERT"
TXT_UPDATE == <<85, 80, 68, 65, 84, 69>>                                 \* "UPDATE"
TXT_DELETE == <<68, 69, 76, 69, 84, 69>>                                 \* "DELETE"
TXT_Database == <<68, 97, 116, 97, 98, 97, 115, 101>>   \* "Database"
TXT_information_schema == <<105, 110, 102, 111, 114, 109, 97, 116, 105, 111, 110, 95, 115, 99, 104, 101, 109, 97>>
TXT_SCHEMATA == <<83, 67, 72, 69, 77, 65, 84, 65>>   \* "SCHEMATA"
TXT_Tables_in_ == <<84, 97, 98, 108, 101, 115, 95, 105, 110, 95>>   \* "Tables_in_"
TXT_tables == <<116, 97, 98, 108, 101, 115>>   \* "tables"
TXT_Field == <<70, 105, 101, 108, 100>>   \* "Field"
TXT_param == <<112, 97, 114, 97, 109>>   \* "param"

SQL_CREATE_T == <<67, 82, 69, 65, 84, 69, 32, 84, 65, 66, 76, 69, 32, 116, 40, 97, 41>>
    \* "CREATE TABLE t(a)"
SQL_INSERT_T == <<73, 78, 83, 69, 82, 84, 32, 73, 78, 84, 79, 32, 116, 32, 86, 65, 76, 85, 69, 83, 40, 49, 41>>
    \* "INSERT INTO t VALUES(1)"
SQL_INSERT_P == <<73, 78, 83, 69, 82, 84, 32, 73, 78, 84, 79, 32, 116, 32, 86, 65, 76, 85, 69, 83, 40, 63, 41>>
    \* "INSERT INTO t VALUES(?)"
SQL_DELETE_T == <<68, 69, 76, 69, 84, 69, 32, 70, 82, 79, 77, 32, 116>>  \* "DELETE FROM t"
SQL_SELECT_T == <<83, 69, 76, 69, 67, 84, 32, 97, 32, 70, 82, 79, 77, 32, 116>>
    \* "SELECT a FROM t"
SQL_SELECT_1 == <<83, 69, 76, 69, 67, 84, 32, 49>>                       \* "SELECT 1"
SQL_DROP_T == <<68, 82, 79, 80, 32, 84, 65, 66, 76, 69, 32, 116>>        \* "DROP TABLE t"
SQL_USE_D == <<85, 83, 69, 32, 100>>                                     \* "USE d"
SQL_USE_EMPTY == <<85, 83, 69, 32, 59>>                                  \* "USE ;"
\* The table items(id INTEGER PRIMARY KEY, name TEXT) and its statements.
TXT_items == <<105, 116, 101, 109, 115>>
TXT_id == <<105, 100>>
TXT_name == <<110, 97, 109, 101>>
TXT_foo == <<102, 111, 111>>
TXT_bar == <<98, 97, 114>>
TXT_demo == <<100, 101, 109, 111>>
SQL_CREATE_DB_DEMO ==
    <<67, 82, 69, 65, 84, 69, 32, 68, 65, 84, 65, 66, 65, 83, 69, 32, 100, 101,
    109, 111>>
    \* "CREATE DATABASE demo"
SQL_USE_DEMO ==
    <<85, 83, 69, 32, 100, 101, 109, 111>>
    \* "USE demo"
SQL_CREATE_ITEMS ==
    <<67, 82, 69, 65, 84, 69, 32, 84, 65, 66, 76, 69, 32, 105, 116, 101, 109,
    115, 40, 105, 100, 32, 73, 78, 84, 69, 71, 69, 82, 32, 80, 82, 73, 77, 65,
    82, 89, 32, 75, 69, 89, 44, 32, 110, 97, 109, 101, 32, 84, 69, 88, 84, 41>>
    \* "CREATE TABLE items(id INTEGER PRIMARY KEY, name TEXT)"
SQL_INSERT_FOO ==
    <<73, 78, 83, 69, 82, 84, 32, 73, 78, 84, 79, 32, 105, 116, 101, 109, 115,
    40, 110, 97, 109, 101, 41, 32, 86, 65, 76, 85, 69, 83, 40, 39, 102, 111,
    111, 39, 41>>
    \* "INSERT INTO items(name) VALUES('foo')"
SQL_SELECT_ITEMS ==
    <<83, 69, 76, 69, 67, 84, 32, 42, 32, 70, 82, 79, 77, 32, 105, 116, 101,
    109, 115>>
    \* "SELECT * FROM items"
SQL_UPDATE_ITEMS ==
    <<85, 80, 68, 65, 84, 69, 32, 105, 116, 101, 109, 115, 32, 83, 69, 84, 32,
    110, 97, 109, 101, 61, 63, 32, 87, 72, 69, 82, 69, 32, 105, 100, 61, 63>>
    \* "UPDATE items SET name=? WHERE id=?"
SQL_SELECT_NAME ==
    <<83, 69, 76, 69, 67, 84, 32, 110, 97, 109, 101, 32, 70, 82, 79, 77, 32,
    105, 116, 101, 109, 115, 32, 87, 72, 69, 82, 69, 32, 105, 100, 61, 49>>
    \* "SELECT name FROM items WHERE id=1"
SQL_DELETE_ITEMS ==
    <<68, 69, 76, 69, 84, 69, 32, 70, 82, 79, 77, 32, 105, 116, 101, 109, 115>>
    \* "DELETE FROM items"
SQL_DESCRIBE_T == TXT_DESCRIBE \o <<32, 116>>                          \* "DESCRIBE t"
SQL_CREATE_DB_D == TXT_CREATE_DATABASE \o <<32, 100>>
SQL_CREATE_DB_X == <<67, 82, 69, 65, 84, 69, 32, 68, 65, 84, 65, 66, 65, 83, 69, 32, 120>>
    \* "CREATE DATABASE x"

(***************************************************************************)
(* The embedded engine (better-sqlite3), as far as the adapter uses it.    *)
(* A database file holds its tables in creation order; a table has a name, *)
(* its column names and its rows (one value per row: the tables of the     *)
(* model have one column).  A value is <<tag, bytes-or-number>>.           *)
(***************************************************************************)
NullValue == <<0, << >> >>
IntValue(n) == <<1, <<n>> >>
TextValue(s) == <<2, s>>

\* Files the file system refuses to open or create: new Database(path) throws.
UnopenableFiles == {<<120>>}                                             \* "x"

Message(text, arg) == [text |-> text, arg |-> arg]

TableNamed(content, name) ==
    LET hits == {i \in 1..Len(content) : content[i].name = name}
    IN  IF hits = {} THEN 0 ELSE CHOOSE i \in hits : TRUE

EngineThrow(content, text, arg) ==
    [ok |-> FALSE, content |-> content, changes |-> 0, columns |-> << >>,
     rows |-> << >>, message |-> Message(text, arg)]

EngineDone(content, changes, columns, rows) ==
    [ok |-> TRUE, content |-> content, changes |-> changes, columns |-> columns,
     rows |-> rows, message |-> Message("", << >>)]

\* The statements on the table items.  A row is <<id, name>>; INSERT gives
\* the row the next free id (INTEGER PRIMARY KEY); "id = ?" compares with
\* integer affinity, so the text of a number matches the number; changes
\* is the number of rows the statement inserted, updated or deleted.
ItemStatements ==
    {SQL_CREATE_ITEMS, SQL_INSERT_FOO, SQL_SELECT_ITEMS, SQL_UPDATE_ITEMS, SQL_SELECT_NAME,
     SQL_DELETE_ITEMS}

MatchesId(value, id) == value = id \/ value = TextValue(<<48 + id[2][1]>>)

NextId(rows) ==
    IF rows = << >> THEN 1
    ELSE 1 + CHOOSE n \in {rows[k][1][2][1] : k \in DOMAIN rows} :
                 \A k \in DOMAIN rows : rows[k][1][2][1] <= n

ItemsDone(content, t, rows, changes, columns, result) ==
    EngineDone([content EXCEPT ![t].rows = rows], changes, columns, result)

EngineExecuteItems(content, sql, parameters) ==
    LET t == TableNamed(content, TXT_items)
        nparams == IF sql = SQL_UPDATE_ITEMS THEN 2 ELSE 0
        rows == IF t = 0 THEN << >> ELSE content[t].rows
        hits == {k \in DOMAIN rows : MatchesId(parameters[2], rows[k][1])}
        first == SelectSeq(rows, LAMBDA r : r[1] = IntValue(1))
    IN  IF sql = SQL_CREATE_ITEMS /\ t # 0
        THEN EngineThrow(content, "table already exists", TXT_items)
        ELSE IF sql # SQL_CREATE_ITEMS /\ t = 0
        THEN EngineThrow(content, "no such table", TXT_items)
        ELSE IF Len(parameters) < nparams
        THEN EngineThrow(content, "Too few parameter values were provided", << >>)
        ELSE IF Len(parameters) > nparams
        THEN EngineThrow(content, "Too many parameter values were provided", << >>)
        ELSE IF sql = SQL_CREATE_ITEMS
        THEN EngineDone(Append(content, [name |-> TXT_items, columns |-> <<TXT_id, TXT_name>>,
                                         rows |-> << >>]), 0, << >>, << >>)
        ELSE IF sql = SQL_INSERT_FOO
        THEN ItemsDone(content, t,
                       Append(rows, <<IntValue(NextId(rows)), TextValue(TXT_foo)>>),
                       1, << >>, << >>)
        ELSE IF sql = SQL_UPDATE_ITEMS
        THEN ItemsDone(content, t,
                       [k \in DOMAIN rows |->
                           IF k \in hits THEN <<rows[k][1], parameters[1]>> ELSE rows[k]],
                       Cardinality(hits), << >>, << >>)
        ELSE IF sql = SQL_DELETE_ITEMS
        THEN ItemsDone(content, t, << >>, Len(rows), << >>, << >>)
        ELSE IF sql = SQL_SELECT_ITEMS
        THEN EngineDone(content, 0, <<TXT_id, TXT_name>>, rows)
        ELSE EngineDone(content, 0, <<TXT_name>>,
                        [k \in DOMAIN first |-> <<first[k][2]>>])

\* entry.db.prepare(sql) followed by statement.run(...parameters) or
\* statement.all(...parameters): the statements the clients of the model
\* send.  A statement either takes effect as a whole or throws and changes
\* nothing.
EngineExecute(content, sql, parameters) ==
    LET t == TableNamed(content, <<116>>)
        nparams == IF sql = SQL_INSERT_P THEN 1 ELSE 0
    IN  IF sql \in ItemStatements THEN EngineExecuteItems(content, sql, parameters)
        ELSE IF sql \notin {SQL_CREATE_T, SQL_INSERT_T, SQL_INSERT_P, SQL_DELETE_T,
                            SQL_SELECT_T, SQL_SELECT_1}
        THEN EngineThrow(content, "syntax error", sql)
        ELSE IF sql = SQL_CREATE_T /\ t # 0
        THEN EngineThrow(content, "table already exists", <<116>>)
        ELSE IF sql \in {SQL_INSERT_T, SQL_INSERT_P, SQL_DELETE_T, SQL_SELECT_T} /\ t = 0
        THEN EngineThrow(content, "no such table", <<116>>)
        ELSE IF Len(parameters) < nparams
        THEN EngineThrow(content, "Too few parameter values were provided", << >>)
        ELSE IF Len(parameters) > nparams
        THEN EngineThrow(content, "Too many parameter values were provided", << >>)
        ELSE IF sql = SQL_CREATE_T
        THEN EngineDone(Append(content, [name |-> <<116>>, columns |-> << <<97>> >>,
                                         rows |-> << >>]), 0, << >>, << >>)
        ELSE IF sql = SQL_INSERT_T
        THEN EngineDone([content EXCEPT ![t].rows = Append(@, IntValue(1))],
                        1, << >>, << >>)
        ELSE IF sql = SQL_INSERT_P
        THEN EngineDone([content EXCEPT ![t].rows = Append(@, parameters[1])],
                        1, << >>, << >>)
        ELSE IF sql = SQL_DELETE_T
        THEN EngineDone([content EXCEPT ![t].rows = << >>],
                        Len(content[t].rows), << >>, << >>)
        ELSE IF sql = SQL_SELECT_T
        THEN EngineDone(content, 0, << <<97>> >>,
                        [i \in 1..Len(content[t].rows) |-> <<content[t].rows[i]>>])
        ELSE EngineDone(content, 0, << <<49>> >>, << <<IntValue(1)>> >>)

(***************************************************************************)
(* The database registry.                                                  *)
(***************************************************************************)
\* String(name || "default").trim().replace(/[^A-Za-z0-9_]/g, "_") || "default"
replaceUnsafe(s) == [i \in 1..Len(s) |-> IF IsWordChar(s[i]) THEN s[i] ELSE 95]

orDefault(s) == IF s = Null \/ s = << >> THEN TXT_default ELSE s

sanitizeDatabaseName(name) == orDefault(replaceUnsafe(trim(orDefault(name))))

\* state.databases.has(name), as the position of the entry (0: absent).
DatabaseIndex(dbs, name) ==
    LET hits == {i \in 1..Len(dbs) : dbs[i].name = name}
    IN  IF hits = {} THEN 0 ELSE CHOOSE i \in hits : TRUE

\* The registry and the data directory, as the functions below pass them on.
Store(dbs, fs, ok) == [databases |-> dbs, files |-> fs, ok |-> ok]

\* new Database(filePath) and state.databases.set(name, ...): the file is
\* created when it does not exist; ok is FALSE when the constructor throws.
openDatabase(dbs, fs, name, sanitized) ==
    IF sanitized \in UnopenableFiles
    THEN Store(dbs, fs, FALSE)
    ELSE Store(Append(dbs, [name |-> name, sanitized |-> sanitized, tables |-> << >>]),
               IF sanitized \in DOMAIN fs THEN fs
               ELSE [f \in DOMAIN fs \cup {sanitized} |->
                        IF f \in DOMAIN fs THEN fs[f] ELSE << >>],
               TRUE)

\* getDatabaseEntry without the test state.databases.has(name): every
\* reference opens the file and registers an entry.
getDatabaseEntryAlwaysOpens(dbs, fs, name) ==
    openDatabase(dbs, fs, name, sanitizeDatabaseName(name))

\* getDatabaseEntry(name): registers the database and opens its file on the
\* first reference.
getDatabaseEntry(dbs, fs, name) ==
    IF DatabaseIndex(dbs, name) # 0 THEN Store(dbs, fs, TRUE)
    ELSE openDatabase(dbs, fs, name, sanitizeDatabaseName(name))

\* The tablesMap refreshDatabaseMetadata builds from the tables of a file.
tablesMap(content) ==
    [k \in 1..Len(content) |->
        [name |-> content[k].name, columns |-> content[k].columns,
         rowCount |-> Len(content[k].rows)]]

\* entry.tables = tablesMap, for the entry at position i.
setTables(got, i) ==
    Store([got.databases EXCEPT ![i].tables = tablesMap(got.files[got.databases[i].sanitized])],
          got.files, TRUE)

\* refreshDatabaseMetadata, once getDatabaseEntry has returned or thrown.
refreshEntry(got, name) ==
    IF ~got.ok THEN got ELSE setTables(got, DatabaseIndex(got.databases, name))

\* refreshDatabaseMetadata(name): rebuilds entry.tables from the file.
refreshDatabaseMetadata(dbs, fs, name) ==
    refreshEntry(getDatabaseEntry(dbs, fs, name), name)

\* buildMetricsSnapshot(): what GET /metrics answers, read from the cache.
buildMetricsSnapshot(dbs, count) ==
    [queryCount |-> count,
     databaseCount |-> Len(dbs),
     databases |-> [i \in 1..Len(dbs) |->
                      [name |-> dbs[i].name,
                       tables |-> [k \in 1..Len(dbs[i].tables) |->
                                     [name |-> dbs[i].tables[k].name,
                                      columnCount |-> Len(dbs[i].tables[k].columns),
                                      rowCount |-> dbs[i].tables[k].rowCount]]]]]

(***************************************************************************)
(* Packets the server writes.  A packet is kept as its sequence-id byte,   *)
(* its kind and its fields.                                                *)
(***************************************************************************)
\* buildPacket: header[3] = sequenceId stores the low 8 bits.
buildPacket(sequenceId, type, info) ==
    [seq |-> sequenceId % 256, type |-> type, info |-> info]

buildOkPacket(sequenceId, affectedRows, message) ==
    buildPacket(sequenceId, "OK", [affectedRows |-> affectedRows, message |-> message])

buildErrPacket(sequenceId, message) ==
    buildPacket(sequenceId, "ERR", [message |-> message])

buildEofPacket(sequenceId) == buildPacket(sequenceId, "EOF", [warnings |-> 0])

buildColumnDefinitionPacket(sequenceId, schema, table, name) ==
    buildPacket(sequenceId, "COLUMN", [schema |-> schema, table |-> table, name |-> name])

buildRowPacket(sequenceId, values) ==
    buildPacket(sequenceId, "ROW", [values |-> values])

buildBinaryRowPacket(sequenceId, values, columnCount) ==
    buildPacket(sequenceId, "BINARY_ROW",
                [values |-> [i \in 1..columnCount |->
                                IF i <= Len(values) THEN values[i] ELSE NullValue]])

buildStmtPrepareOkPacket(sequenceId, statementId, numColumns, numParams) ==
    buildPacket(sequenceId, "PREPARE_OK",
                [statementId |-> statementId, numColumns |-> numColumns,
                 numParams |-> numParams])

\* sendResultSet that leaves the column definitions out when there is no row.
sendResultSetBare(sequenceStart, currentDatabase, columns, rows, metaSchema, metaTable, binary) ==
    LET nc == IF rows = << >> THEN 0 ELSE Len(columns)
        schema == IF metaSchema # << >> THEN metaSchema
                  ELSE IF currentDatabase # Null THEN currentDatabase ELSE << >>
    IN  <<buildPacket(sequenceStart, "COLUMN_COUNT", [count |-> nc])>>
        \o [i \in 1..nc |->
                buildColumnDefinitionPacket(sequenceStart + i, schema, metaTable, columns[i])]
        \o <<buildEofPacket(sequenceStart + nc + 1)>>
        \o [j \in 1..Len(rows) |->
                IF binary THEN buildBinaryRowPacket(sequenceStart + nc + 1 + j, rows[j], nc)
                ELSE buildRowPacket(sequenceStart + nc + 1 + j, rows[j])]
        \o <<buildEofPacket(sequenceStart + nc + Len(rows) + 2)>>

\* sendResultSet(sequenceStart, connection, columns, rows, meta, options): the
\* packets of a result set; schema is meta.schema || connection.currentDatabase || "".
sendResultSet(sequenceStart, currentDatabase, columns, rows, metaSchema, metaTable, binary) ==
    LET schema == IF metaSchema # << >> THEN metaSchema
                  ELSE IF currentDatabase # Null THEN currentDatabase ELSE << >>
        nc == Len(columns)
        nr == Len(rows)
    IN  <<buildPacket(sequenceStart, "COLUMN_COUNT", [count |-> nc])>>
        \o [i \in 1..nc |->
                buildColumnDefinitionPacket(sequenceStart + i, schema, metaTable, columns[i])]
        \o <<buildEofPacket(sequenceStart + nc + 1)>>
        \o [j \in 1..nr |->
                IF binary THEN buildBinaryRowPacket(sequenceStart + nc + 1 + j, rows[j], nc)
                ELSE buildRowPacket(sequenceStart + nc + 1 + j, rows[j])]
        \o <<buildEofPacket(sequenceStart + nc + nr + 2)>>

\* buffer.writeBigUInt64LE(BigInt(value)): the 8 little-endian bytes.
RECURSIVE littleEndian(_, _)
littleEndian(value, n) ==
    IF n = 0 THEN << >> ELSE <<value % 256>> \o littleEndian(value \div 256, n - 1)

\* writeLengthEncodedInteger with "value <= 0xfb" as its first test.
writeLengthEncodedIntegerInclusive(value) ==
    IF value <= 251 THEN <<value>>
    ELSE IF value < 65536 THEN <<252>> \o writeUIntLE(value, 2)
    ELSE IF value < 16777216 THEN <<253>> \o writeUIntLE(value, 3)
    ELSE <<254>> \o littleEndian(value, 8)

\* writeLengthEncodedInteger(value)
writeLengthEncodedInteger(value) ==
    IF value < 251 THEN <<value>>
    ELSE IF value < 65536 THEN <<252>> \o writeUIntLE(value, 2)
    ELSE IF value < 16777216 THEN <<253>> \o writeUIntLE(value, 3)
    ELSE <<254>> \o littleEndian(value, 8)

\* readLengthEncodedInteger(buffer, offset): value (Undefined for null),
\* bytes consumed, and whether a read past the end of the buffer throws.
readLengthEncodedInteger(buffer, offset) ==
    LET first == byteAt(buffer, offset)
        fits(n) == offset + 1 + n <= Len(buffer)
    IN  IF first # Undefined /\ first < 251
        THEN [value |-> first, consumed |-> 1, threw |-> FALSE]
        ELSE IF first = 252
        THEN IF fits(2) THEN [value |-> readUIntLE(buffer, offset + 1, 2), consumed |-> 3,
                              threw |-> FALSE]
             ELSE [value |-> Undefined, consumed |-> 0, threw |-> TRUE]
        ELSE IF first = 253
        THEN IF fits(3) THEN [value |-> readUIntLE(buffer, offset + 1, 3), consumed |-> 4,
                              threw |-> FALSE]
             ELSE [value |-> Undefined, consumed |-> 0, threw |-> TRUE]
        ELSE IF first = 254
        THEN IF fits(8) THEN [value |-> readUIntLE(buffer, offset + 1, 8), consumed |-> 9,
                              threw |-> FALSE]
             ELSE [value |-> Undefined, consumed |-> 0, threw |-> TRUE]
        ELSE [value |-> Undefined, consumed |-> 1, threw |-> FALSE]

(***************************************************************************)
(* The handshake.                                                          *)
(***************************************************************************)
\* sendHandshake writes this packet with sequence id 0.
HandshakePacket(connectionId) ==
    buildPacket(0, "HANDSHAKE", [protocol |-> 10, connectionId |-> connectionId])

\* The offset after the auth response, by the client's capabilities.
lenencEnd(offset, r) ==
    [offset |-> offset + r.consumed + orZero(r.value), threw |-> r.threw]

secureEnd(offset, authResponseLength) ==
    [offset |-> IF authResponseLength = Undefined THEN NaN
                ELSE offset + 1 + authResponseLength,
     threw |-> FALSE]

terminatedEnd(payload, end) ==
    [offset |-> IF end >= 0 THEN end + 1 ELSE Len(payload), threw |-> FALSE]

AuthResponseEnd(payload, clientCapabilities, offset) ==
    IF HasBit(clientCapabilities, CLIENT_PLUGIN_AUTH_LENENC_CLIENT_DATA)
    THEN lenencEnd(offset, readLengthEncodedInteger(payload, offset))
    ELSE IF HasBit(clientCapabilities, CLIENT_SECURE_CONNECTION)
    THEN secureEnd(offset, byteAt(payload, offset))
    ELSE terminatedEnd(payload, indexOf(payload, 0, offset))

\* The database name between offset and the next zero byte, if there is one.
databaseNameAt(payload, offset, end) ==
    IF end >= 0 THEN subarray(payload, offset, end) ELSE Null

\* parseHandshakeResponse from "let databaseName = null" on.
parsedAfterAuth(payload, clientCapabilities, username, auth) ==
    [threw |-> auth.threw, username |-> username,
     databaseName |->
        IF HasBit(clientCapabilities, CLIENT_CONNECT_WITH_DB) /\ ~auth.threw
        THEN databaseNameAt(payload, auth.offset, indexOf(payload, 0, auth.offset))
        ELSE Null]

\* parseHandshakeResponse from "let username" on.
parsedAfterUser(payload, clientCapabilities, usernameEnd) ==
    parsedAfterAuth(payload, clientCapabilities,
                    IF usernameEnd >= 0 THEN subarray(payload, 32, usernameEnd)
                    ELSE subarray(payload, 32, Len(payload)),
                    AuthResponseEnd(payload, clientCapabilities,
                                    IF usernameEnd >= 0 THEN usernameEnd + 1
                                    ELSE Len(payload)))

\* parseHandshakeResponse(connection, payload): the user name and the default
\* database it reads; threw when a Buffer read past the end throws.
parseHandshakeResponse(payload) ==
    IF Len(payload) < 4
    THEN [threw |-> TRUE, username |-> << >>, databaseName |-> Null]
    ELSE parsedAfterUser(payload, readUIntLE(payload, 0, 4), indexOf(payload, 0, 32))


(***************************************************************************)
(* The SQL execution adapter.  A handler is an async function: it runs up  *)
(* to its first await inside the data callback and the rest in promise     *)
(* jobs.  Every change of state it makes happens before its first await;   *)
(* what it does afterwards is to read the connection and the registry and  *)
(* to build its packets.  A reply records the round of promise jobs after  *)
(* which the handler's promise is settled (settled), whether it is         *)
(* rejected, and either its packets or what is needed to build them later. *)
(***************************************************************************)
Context(conn, dbs, fs) == [conn |-> conn, databases |-> dbs, files |-> fs]

\* A reply whose packets are known when the handler returns.
Reply(settled, packets) ==
    [settled |-> settled, adopted |-> 0, rejected |-> FALSE, engineError |-> FALSE,
     kind |-> "packets", packets |-> packets,
     columns |-> << >>, rows |-> << >>, binary |-> FALSE, current |-> << >>,
     tableName |-> << >>, statementId |-> 0, sequenceId |-> 0]

\* A handler whose promise is rejected: nothing is written.
Rejected == [Reply(0, << >>) EXCEPT !.rejected = TRUE]

\* A reply built after an await.
Deferred(kind, settled, sequenceId) ==
    [Reply(settled, << >>) EXCEPT !.kind = kind, !.sequenceId = sequenceId]

Result(ctx, reply) == [ctx |-> ctx, reply |-> reply]

\* The result of a handler that leaves the registry as got holds it.
WithStore(conn, got, reply) == Result(Context(conn, got.databases, got.files), reply)

\* await refreshDatabaseMetadata(...) in a handler that does not catch: the
\* handler's promise is rejected when the store cannot be opened.
Refreshed(ctx, got, reply) ==
    IF ~got.ok THEN Result(ctx, Rejected) ELSE WithStore(ctx.conn, got, reply)

NoDatabaseSelected(sequenceId) ==
    Reply(0, <<buildErrPacket(sequenceId, Message("No database selected", << >>))>>)

\* handleUseDatabase(sequenceId, connection, databaseName)
handleUseDatabase(sequenceId, ctx, databaseName) ==
    IF databaseName = << >>
    THEN Result(ctx, Reply(0, <<buildErrPacket(sequenceId,
                                   Message("Database name is required", << >>))>>))
    ELSE WithStore([ctx.conn EXCEPT !.currentDatabase = databaseName],
                   refreshDatabaseMetadata(ctx.databases, ctx.files, databaseName),
                   Reply(2, <<buildOkPacket(sequenceId, 0,
                                  Message("Using database", databaseName))>>))

\* handleShowDatabases behind getDatabaseEntry(connection.currentDatabase ||
\* "default"), as the statements of the engine are.
handleShowDatabasesRegisters(sequenceId, ctx) ==
    WithStore(ctx.conn,
              getDatabaseEntry(ctx.databases, ctx.files, orDefault(ctx.conn.currentDatabase)),
              Reply(2, sendResultSet(sequenceId, ctx.conn.currentDatabase,
                            <<TXT_Database>>,
                            [i \in 1..Len(ctx.databases) |->
                                <<TextValue(ctx.databases[i].name)>>],
                            TXT_information_schema, TXT_SCHEMATA, FALSE)))

\* handleShowDatabases: the names are read when the handler is called.
handleShowDatabases(sequenceId, ctx) ==
    Result(ctx, Reply(2, sendResultSet(sequenceId, ctx.conn.currentDatabase,
                            <<TXT_Database>>,
                            [i \in 1..Len(ctx.databases) |->
                                <<TextValue(ctx.databases[i].name)>>],
                            TXT_information_schema, TXT_SCHEMATA, FALSE)))

\* handleShowTables: the cache is rebuilt when the handler is called and read
\* after the await.
handleShowTables(sequenceId, ctx) ==
    IF ctx.conn.currentDatabase = Null
    THEN Result(ctx, NoDatabaseSelected(sequenceId))
    ELSE Refreshed(ctx,
                   refreshDatabaseMetadata(ctx.databases, ctx.files, ctx.conn.currentDatabase),
                   [Deferred("showtables", 3, sequenceId)
                       EXCEPT !.current = ctx.conn.currentDatabase])

\* handleDescribe
handleDescribe(sequenceId, ctx, tableName) ==
    IF ctx.conn.currentDatabase = Null
    THEN Result(ctx, NoDatabaseSelected(sequenceId))
    ELSE Refreshed(ctx,
                   refreshDatabaseMetadata(ctx.databases, ctx.files, ctx.conn.currentDatabase),
                   [Deferred("describe", 3, sequenceId)
                       EXCEPT !.current = ctx.conn.currentDatabase,
                              !.tableName = tableName])

\* sql.trim().replace(/;+$/g, ""), or the statement itself when nothing is left.
orStatement(n, sql) == IF Len(n) > 0 THEN n ELSE sql

\* The statement text runSelectQuery and runNonSelectQuery hand to the engine.
normalizedSql(sql) == orStatement(stripSemicolons(trim(sql)), sql)

\* The capture of /^DESCRIBE\s+([A-Za-z0-9_]+)/i, or << >> when it does not match.
RECURSIVE wordPrefix(_)
wordPrefix(s) ==
    IF s # << >> /\ IsWordChar(Head(s)) THEN <<Head(s)>> \o wordPrefix(Tail(s)) ELSE << >>

describeMatch(trimmed) ==
    IF /\ startsWith(toUpperCase(trimmed), TXT_DESCRIBE)
       /\ Len(trimmed) > 8
       /\ IsSpace(trimmed[9])
    THEN wordPrefix(trimStart(SubSeq(trimmed, 9, Len(trimmed))))
    ELSE << >>

\* The file of a registered database.
FileOf(dbs, name) == dbs[DatabaseIndex(dbs, name)].sanitized

\* connection.currentDatabase || "": no name stands in for a database that
\* is not selected.
TargetOfUnnamed(conn) == IF conn.currentDatabase # Null THEN conn.currentDatabase ELSE << >>

\* connection.currentDatabase || "default"
TargetOf(conn) == IF conn.currentDatabase # Null THEN conn.currentDatabase ELSE TXT_default

\* The catch of executeSql: one ERR with the engine's message.
engineErr(sequenceId, ran) ==
    [Reply(1, <<buildErrPacket(sequenceId, ran.message)>>) EXCEPT !.engineError = TRUE]

\* runSelectQuery and sendResultSet, once the engine has run the statement.
selected(sequenceId, conn, opened, binary, ran) ==
    IF ran.ok
    THEN WithStore(conn, opened,
                   [Deferred("resultset", 3, sequenceId)
                       EXCEPT !.columns = ran.columns, !.rows = ran.rows, !.binary = binary])
    ELSE WithStore(conn, opened, engineErr(sequenceId, ran))

\* runNonSelectQuery without "affectedRows = result.changes".
mutatedNoChanges(sequenceId, conn, opened, targetDatabase, file, ran) ==
    IF ran.ok
    THEN WithStore(conn,
                   refreshDatabaseMetadata(opened.databases,
                                           [opened.files EXCEPT ![file] = ran.content],
                                           targetDatabase),
                   Reply(2, <<buildOkPacket(sequenceId, 0, Message("", << >>))>>))
    ELSE WithStore(conn, opened, engineErr(sequenceId, ran))

\* runNonSelectQuery without its "await refreshDatabaseMetadata(databaseName)".
mutatedNoRefresh(sequenceId, conn, opened, targetDatabase, file, ran) ==
    IF ran.ok
    THEN WithStore(conn,
                   Store(opened.databases, [opened.files EXCEPT ![file] = ran.content], TRUE),
                   Reply(2, <<buildOkPacket(sequenceId, ran.changes, Message("", << >>))>>))
    ELSE WithStore(conn, opened, engineErr(sequenceId, ran))

\* runNonSelectQuery with the statement run on a copy of the file that the
\* connection keeps to itself.
mutatedPrivately(sequenceId, conn, opened, targetDatabase, file, ran) ==
    IF ran.ok
    THEN WithStore(conn,
                   refreshDatabaseMetadata(opened.databases, opened.files, targetDatabase),
                   Reply(2, <<buildOkPacket(sequenceId, ran.changes, Message("", << >>))>>))
    ELSE WithStore(conn, opened, engineErr(sequenceId, ran))

\* runNonSelectQuery and refreshDatabaseMetadata(targetDatabase), once the
\* engine has run the statement on the file.
mutated(sequenceId, conn, opened, targetDatabase, file, ran) ==
    IF ran.ok
    THEN WithStore(conn,
                   refreshDatabaseMetadata(opened.databases,
                                           [opened.files EXCEPT ![file] = ran.content],
                                           targetDatabase),
                   Reply(2, <<buildOkPacket(sequenceId, ran.changes, Message("", << >>))>>))
    ELSE WithStore(conn, opened, engineErr(sequenceId, ran))

\* The CREATE DATABASE branch; name is
\* trimmed.replace(/CREATE DATABASE/i, "").replace(/;$/, "").trim().
createDatabase(sequenceId, conn, opened, name) ==
    WithStore(conn, refreshDatabaseMetadata(opened.databases, opened.files, name),
              Reply(2, <<buildOkPacket(sequenceId, 0, Message("Database created", name))>>))

\* executeSql, from "let targetDatabase" on, with the entry getDatabaseEntry
\* returned: SELECT, CREATE DATABASE, the mutating statements and the
\* unsupported rest.
executeOpened(sequenceId, ctx, trimmed, upper, parameters, binary, targetDatabase, opened) ==
    IF ~opened.ok THEN Result(ctx, Rejected)
    ELSE IF startsWith(upper, TXT_SELECT)
    THEN selected(sequenceId, ctx.conn, opened, binary,
                  EngineExecute(opened.files[FileOf(opened.databases, targetDatabase)],
                                normalizedSql(trimmed), parameters))
    ELSE IF startsWith(upper, TXT_CREATE_DATABASE)
    THEN createDatabase(sequenceId, ctx.conn, opened,
                        trim(stripOneSemicolon(subarray(trimmed, 15, Len(trimmed)))))
    ELSE IF \E w \in {TXT_CREATE, TXT_INSERT, TXT_UPDATE, TXT_DELETE} : startsWith(upper, w)
    THEN mutated(sequenceId, ctx.conn, opened, targetDatabase,
                 FileOf(opened.databases, targetDatabase),
                 EngineExecute(opened.files[FileOf(opened.databases, targetDatabase)],
                               normalizedSql(trimmed), parameters))
    ELSE WithStore(ctx.conn, opened,
                   Reply(0, <<buildErrPacket(sequenceId,
                                  Message("Unsupported query", << >>))>>))

executeStatement(sequenceId, ctx, trimmed, parameters, binary) ==
    executeOpened(sequenceId, ctx, trimmed, toUpperCase(trimmed), parameters, binary,
                  TargetOf(ctx.conn),
                  getDatabaseEntry(ctx.databases, ctx.files, TargetOf(ctx.conn)))

\* return p in an async function: the function's promise adopts p.
Adopted(reply) == [reply EXCEPT !.adopted = @ + 1]

AdoptedResult(r) == Result(r.ctx, Adopted(r.reply))

\* executeSql, from "const trimmed = sql.trim()" on.
executeTrimmed(sequenceId, ctx, trimmed, upper, parameters, binary) ==
    IF Len(trimmed) = 0
    THEN Result(ctx, Reply(0, <<buildOkPacket(sequenceId, 0, Message("", << >>))>>))
    ELSE IF startsWith(upper, TXT_USE_)
    THEN AdoptedResult(handleUseDatabase(sequenceId, ctx,
                           trim(stripOneSemicolon(subarray(trimmed, 4, Len(trimmed))))))
    ELSE IF upper = TXT_SHOW_DATABASES
    THEN AdoptedResult(handleShowDatabases(sequenceId, ctx))
    ELSE IF upper = TXT_SHOW_TABLES
    THEN AdoptedResult(handleShowTables(sequenceId, ctx))
    ELSE IF describeMatch(trimmed) # << >>
    THEN AdoptedResult(handleDescribe(sequenceId, ctx, describeMatch(trimmed)))
    ELSE executeStatement(sequenceId, ctx, trimmed, parameters, binary)

\* executeSql(sequenceId, connection, sql, parameters, options)
executeSql(sequenceId, ctx, sql, parameters, binary) ==
    executeTrimmed(sequenceId, ctx, trim(sql), toUpperCase(trim(sql)), parameters, binary)

\* handleQuery
handleQuery(sequenceId, ctx, sql) ==
    AdoptedResult(executeSql(sequenceId, ctx, sql, << >>, FALSE))
(***************************************************************************)
(* Prepared statements.                                                    *)
(***************************************************************************)
\* countStatementParameters(sql): the '?' outside quotes.  scanStep is the
\* body of the loop for one index: it keeps the three quote flags and the
\* count, and looks at the previous character.
scanStep(sql, index, scan) ==
    LET char == sql[index]
        prev == IF index > 1 THEN sql[index - 1] ELSE Undefined
    IN  IF char = 39 /\ ~scan.inDouble /\ ~scan.inBacktick /\ prev # 92
        THEN [scan EXCEPT !.inSingle = ~@]
        ELSE IF char = 34 /\ ~scan.inSingle /\ ~scan.inBacktick /\ prev # 92
        THEN [scan EXCEPT !.inDouble = ~@]
        ELSE IF char = 96 /\ ~scan.inSingle /\ ~scan.inDouble /\ prev # 92
        THEN [scan EXCEPT !.inBacktick = ~@]
        ELSE IF char = 63 /\ ~scan.inSingle /\ ~scan.inDouble /\ ~scan.inBacktick
        THEN [scan EXCEPT !.count = @ + 1]
        ELSE scan

\* The loop over the indexes first..final, left to right: the first half
\* of the range, and from the state it ends in, the second half.
RECURSIVE scanRange(_, _, _, _)
scanRange(sql, first, final, scan) ==
    LET middle == (first + final) \div 2
        half == scanRange(sql, first, middle, scan)
    IN  IF first > final THEN scan
        ELSE IF first = final THEN scanStep(sql, first, scan)
        ELSE IF half.count >= scan.count THEN scanRange(sql, middle + 1, final, half)
        ELSE half

countStatementParameters(sql) ==
    scanRange(sql, 1, Len(sql),
              [inSingle |-> FALSE, inDouble |-> FALSE, inBacktick |-> FALSE,
               count |-> 0]).count

\* An entry of statement.paramTypes; a null entry has no type.
ParamType(type, unsigned) == [type |-> type, unsigned |-> unsigned]
NoParamType == ParamType(Undefined, FALSE)
DefaultParamType == ParamType(MYSQL_TYPE_VAR_STRING, FALSE)

\* `param${index}` and `column${index}`
numbered(prefix, index) == prefix \o <<48 + index>>

\* The packets handlePreparedStatementPrepare builds from "packets.push(
\* buildStmtPrepareOkPacket" on; writeUInt16LE throws above 65535 and the
\* handler's catch answers with one ERR.
preparePackets(sequenceId, currentDatabase, statementId, paramCount, columnNames) ==
    LET schema == IF currentDatabase # Null THEN currentDatabase ELSE << >>
        numColumns == Len(columnNames)
        afterParams == IF paramCount > 0 THEN sequenceId + paramCount + 2 ELSE sequenceId + 1
    IN  IF paramCount > UINT16_MAX \/ numColumns > UINT16_MAX
        THEN <<buildErrPacket(sequenceId, Message("out of range", << >>))>>
        ELSE <<buildStmtPrepareOkPacket(sequenceId, statementId, numColumns, paramCount)>>
             \o (IF paramCount > 0
                 THEN [i \in 1..paramCount |->
                          buildColumnDefinitionPacket(sequenceId + i, schema, << >>,
                                                      numbered(TXT_param, i))]
                      \o <<buildEofPacket(sequenceId + paramCount + 1)>>
                 ELSE << >>)
             \o (IF numColumns > 0
                 THEN [i \in 1..numColumns |->
                          buildColumnDefinitionPacket(afterParams + i - 1, schema, << >>,
                                                      columnNames[i])]
                      \o <<buildEofPacket(afterParams + numColumns)>>
                 ELSE << >>)

\* connection.nextStatementId += 1 and connection.preparedStatements.set(
\* statementId, statement); its paramTypes are null entries.
registerStatement(conn, trimmed, paramCount, columnNames) ==
    [conn EXCEPT !.nextStatementId = @ + 1,
                 !.preparedStatements =
                     [id \in DOMAIN @ \cup {conn.nextStatementId} |->
                         IF id = conn.nextStatementId
                         THEN [sql |-> trimmed, paramCount |-> paramCount,
                               paramTypes |-> [i \in 1..paramCount |-> NoParamType],
                               columnNames |-> columnNames]
                         ELSE @[id]]]

\* The probe with a catch that makes up one column for a statement the
\* engine rejects.
probeColumnsInvented(ran) == IF ran.ok THEN ran.columns ELSE <<numbered(<<99>>, 1)>>

\* result.columns of the probing runSelectQuery; its catch leaves no columns.
probeColumns(ran) == IF ran.ok THEN ran.columns ELSE << >>

\* A SELECT without parameters: the statement with the columns the probe
\* found; the packets are built after the await.
probed(sequenceId, ctx, trimmed, opened, columnNames) ==
    Result(Context(registerStatement(ctx.conn, trimmed, 0, columnNames),
                   opened.databases, opened.files),
           [Deferred("prepare", 1, sequenceId)
               EXCEPT !.statementId = ctx.conn.nextStatementId, !.columns = columnNames])

\* runSelectQuery(targetDatabase, trimmed, []) inside its own try.
probe(sequenceId, ctx, trimmed, targetDatabase, opened) ==
    probed(sequenceId, ctx, trimmed, opened,
           IF opened.ok
           THEN probeColumns(EngineExecute(
                    opened.files[FileOf(opened.databases, targetDatabase)],
                    normalizedSql(trimmed), << >>))
           ELSE << >>)

\* handlePreparedStatementPrepare from "connection.preparedStatements.set" on.
prepareCounted(sequenceId, ctx, trimmed, paramCount) ==
    IF paramCount = 0 /\ startsWith(toUpperCase(trimmed), TXT_SELECT)
    THEN probe(sequenceId, ctx, trimmed, TargetOf(ctx.conn),
               getDatabaseEntry(ctx.databases, ctx.files, TargetOf(ctx.conn)))
    ELSE Result(Context(registerStatement(ctx.conn, trimmed, paramCount, << >>),
                        ctx.databases, ctx.files),
                Reply(0, preparePackets(sequenceId, ctx.conn.currentDatabase,
                                        ctx.conn.nextStatementId, paramCount, << >>)))

\* handlePreparedStatementPrepare from "const trimmed = sql.trim()" on.
prepareTrimmed(sequenceId, ctx, trimmed) ==
    IF Len(trimmed) = 0
    THEN Result(ctx, Reply(0, <<buildErrPacket(sequenceId,
                                   Message("Empty statement", << >>))>>))
    ELSE prepareCounted(sequenceId, ctx, trimmed, countStatementParameters(trimmed))

\* handlePreparedStatementPrepare(sequenceId, connection, sql).  A SELECT
\* without parameters is run once to learn its columns (a failure gives no
\* columns), and its packets are built after that await.
handlePreparedStatementPrepare(sequenceId, ctx, sql) ==
    prepareTrimmed(sequenceId, ctx, trim(sql))

\* buffer.readIntLE / readUIntLE of n bytes at offset.
readInt(buffer, offset, n, unsigned) ==
    LET top == buffer[offset + n]
        low == IF n = 1 THEN 0 ELSE readUIntLE(buffer, offset, n - 1)
    IN  low + (256 ^ (n - 1)) * (IF ~unsigned /\ top >= 128 THEN top - 256 ELSE top)

\* The default branch of parseBinaryParameterValue: a length-encoded string.
lengthPrefixed(buffer, offset, len) ==
    IF len.threw
    THEN [value |-> NullValue, consumed |-> 0, threw |-> TRUE]
    ELSE [value |-> TextValue(subarray(buffer, offset + len.consumed,
                                       offset + len.consumed + orZero(len.value))),
          consumed |-> len.consumed + orZero(len.value), threw |-> FALSE]

\* Integers of 64 bits are a sign and the bits of the magnitude, lowest
\* first and without leading zeros.
bitsLE(buffer, offset, n) ==
    [i \in 1..(8 * n) |->
        (buffer[offset + 1 + ((i - 1) \div 8)] \div (2 ^ ((i - 1) % 8))) % 2]

trimBits(bits) ==
    LET ones == {i \in DOMAIN bits : bits[i] = 1}
    IN  IF ones = {} THEN << >>
        ELSE SubSeq(bits, 1, CHOOSE i \in ones : \A j \in ones : j <= i)

\* bits + 1
addOne(bits) ==
    LET zeros == {i \in DOMAIN bits : bits[i] = 0}
        lowest == CHOOSE i \in zeros : \A j \in zeros : i <= j
    IN  IF zeros = {} THEN [i \in 1..(Len(bits) + 1) |-> IF i = Len(bits) + 1 THEN 1 ELSE 0]
        ELSE [i \in DOMAIN bits |->
                IF i < lowest THEN 0 ELSE IF i = lowest THEN 1 ELSE bits[i]]

\* The value of at most 31 bits.
RECURSIVE bitsValue(_)
bitsValue(bits) == IF bits = << >> THEN 0 ELSE bits[1] + 2 * bitsValue(Tail(bits))

\* let value = (BigInt(high) << 32n) | BigInt(low), and value -= 1n << 64n
\* for a signed value whose top bit is set: 2^64 - value is the magnitude.
longlongBigInt(buffer, offset, unsignedFlag) ==
    LET bits == bitsLE(buffer, offset, 8)
    IN  IF ~unsignedFlag /\ bits[64] = 1
        THEN [negative |-> TRUE,
              bits |-> trimBits(addOne([i \in 1..64 |-> 1 - bits[i]]))]
        ELSE [negative |-> FALSE, bits |-> trimBits(bits)]

\* Number(value) of a BigInt: the nearest double, which keeps the 53 highest
\* bits of the magnitude, rounded half to even.
roundedBits(bits, drop) ==
    LET kept == SubSeq(bits, drop + 1, Len(bits))
        sticky == \E i \in 1..(drop - 1) : bits[i] = 1
        roundUp == bits[drop] = 1 /\ (sticky \/ kept[1] = 1)
    IN  [i \in 1..drop |-> 0] \o (IF roundUp THEN addOne(kept) ELSE kept)

NumberOfBigInt(value) ==
    IF Len(value.bits) <= 53 THEN value
    ELSE [value EXCEPT !.bits = roundedBits(value.bits, Len(value.bits) - 53)]

\* A number as a value of a statement: an integer of the model where it has
\* at most 31 bits.
NumberValue(number) ==
    IF Len(number.bits) <= 31
    THEN IntValue(IF number.negative THEN 0 - bitsValue(number.bits)
                  ELSE bitsValue(number.bits))
    ELSE <<3, <<IF number.negative THEN 1 ELSE 0>> \o number.bits>>

\* The decimal digits of a number that is not negative (String(value)).
RECURSIVE digits(_)
digits(n) == IF n < 10 THEN <<48 + n>> ELSE digits(n \div 10) \o <<48 + (n % 10)>>

TXT_undefined == <<117, 110, 100, 101, 102, 105, 110, 101, 100>>

\* padNumber(value, length): String(value).padStart(length, "0"); a byte
\* read outside the buffer is undefined.
padNumber(value, length) ==
    LET text == IF value = Undefined THEN TXT_undefined ELSE digits(value)
    IN  [i \in 1..(length - Len(text)) |-> 48] \o text

\* What a decoder returns: [value, consumed], or the RangeError of a
\* buffer.readUInt16LE / readUInt32LE outside the buffer.
Decoded(value, consumed) == [value |-> value, consumed |-> consumed, threw |-> FALSE]
DecodeThrew == [value |-> NullValue, consumed |-> 0, threw |-> TRUE]

\* `${padNumber(a, 2)}${separator}${padNumber(b, 2)}${separator}${padNumber(c, 2)}`
\* of the three bytes at offset
threeFields(buffer, offset, separator) ==
    padNumber(byteAt(buffer, offset), 2) \o <<separator>>
        \o padNumber(byteAt(buffer, offset + 1), 2) \o <<separator>>
        \o padNumber(byteAt(buffer, offset + 2), 2)

\* `.${padNumber(microseconds, 6)}` if (microseconds > 0)
fraction(microseconds) ==
    IF microseconds > 0 THEN <<46>> \o padNumber(microseconds, 6) ELSE << >>

\* parseBinaryDateOrDateTime(buffer, offset, type)
parseBinaryDateOrDateTime(buffer, offset, type) ==
    LET length == byteAt(buffer, offset)
        date == padNumber(readUIntLE(buffer, offset + 1, 2), 4) \o <<45>>
                    \o padNumber(byteAt(buffer, offset + 3), 2) \o <<45>>
                    \o padNumber(byteAt(buffer, offset + 4), 2)
        dateTime == date \o <<32>> \o threeFields(buffer, offset + 5, 58)
    IN  IF length = 0
        THEN Decoded(TextValue(IF type \in {MYSQL_TYPE_DATE, MYSQL_TYPE_NEWDATE}
                               THEN <<48, 48, 48, 48, 45, 48, 48, 45, 48, 48>>
                               ELSE <<48, 48, 48, 48, 45, 48, 48, 45, 48, 48, 32,
                                      48, 48, 58, 48, 48, 58, 48, 48>>), 1)
        ELSE IF offset + 3 > Len(buffer) THEN DecodeThrew
        ELSE IF type \in {MYSQL_TYPE_DATE, MYSQL_TYPE_NEWDATE} \/ length = 4
        THEN Decoded(TextValue(date), 5)
        ELSE IF length > 7
        THEN IF offset + 12 > Len(buffer) THEN DecodeThrew
             ELSE Decoded(TextValue(dateTime
                                    \o fraction(readUIntLE(buffer, offset + 8, 4))), 12)
        ELSE Decoded(TextValue(dateTime), 8)

\* The text parseBinaryTime builds: totalHours = days * 24 + hours.
timeText(buffer, offset, days, microseconds) ==
    (IF byteAt(buffer, offset + 1) = 1 THEN <<45>> ELSE << >>)
        \o padNumber(IF byteAt(buffer, offset + 6) = Undefined THEN Undefined
                     ELSE days * 24 + byteAt(buffer, offset + 6), 2)
        \o <<58>> \o padNumber(byteAt(buffer, offset + 7), 2)
        \o <<58>> \o padNumber(byteAt(buffer, offset + 8), 2)
        \o fraction(microseconds)

\* parseBinaryTime(buffer, offset)
parseBinaryTime(buffer, offset) ==
    LET length == byteAt(buffer, offset)
    IN  IF length = 0
        THEN Decoded(TextValue(<<48, 48, 58, 48, 48, 58, 48, 48>>), 1)
        ELSE IF offset + 6 > Len(buffer) THEN DecodeThrew
        ELSE IF length > 8
        THEN IF offset + 13 > Len(buffer) THEN DecodeThrew
             ELSE Decoded(TextValue(timeText(buffer, offset,
                                             readUIntLE(buffer, offset + 2, 4),
                                             readUIntLE(buffer, offset + 9, 4))), 13)
        ELSE Decoded(TextValue(timeText(buffer, offset,
                                        readUIntLE(buffer, offset + 2, 4), 0)), 9)

\* parseBinaryParameterValue(buffer, offset, type, unsignedFlag) for NULL,
\* the integers of 1, 2, 4 and 8 bytes, the dates and times, and the
\* length-prefixed strings (also the default branch).
parseBinaryParameterValue(buffer, offset, type, unsignedFlag) ==
    LET size == CASE type = 1 -> 1 [] type = 2 -> 2 [] OTHER -> 4
    IN  IF type = MYSQL_TYPE_NULL
        THEN [value |-> NullValue, consumed |-> 0, threw |-> FALSE]
        ELSE IF type = MYSQL_TYPE_LONGLONG
        THEN IF offset + 8 > Len(buffer)
             THEN [value |-> NullValue, consumed |-> 0, threw |-> TRUE]
             ELSE [value |-> NumberValue(NumberOfBigInt(
                                 longlongBigInt(buffer, offset, unsignedFlag))),
                   consumed |-> 8, threw |-> FALSE]
        ELSE IF type \in {1, 2, MYSQL_TYPE_LONG}
        THEN IF offset + size > Len(buffer)
             THEN [value |-> NullValue, consumed |-> 0, threw |-> TRUE]
             ELSE [value |-> IntValue(readInt(buffer, offset, size, unsignedFlag)),
                   consumed |-> size, threw |-> FALSE]
        ELSE IF type \in {MYSQL_TYPE_TIMESTAMP, MYSQL_TYPE_DATETIME, MYSQL_TYPE_DATE,
                          MYSQL_TYPE_NEWDATE}
        THEN parseBinaryDateOrDateTime(buffer, offset, type)
        ELSE IF type = MYSQL_TYPE_TIME
        THEN parseBinaryTime(buffer, offset)
        ELSE lengthPrefixed(buffer, offset, readLengthEncodedInteger(buffer, offset))

\* ((bitmapByte >> (index % 8)) & 0x01) === 1
isNullAt(nullBitmap, index) ==
    (orZero(byteAt(nullBitmap, index \div 8)) \div (2 ^ (index % 8))) % 2 = 1

\* values.unshift(value): the values in reverse order
pushValueFirst(value, rest) == [values |-> rest.values \o <<value>>, threw |-> rest.threw]

\* values.push(value)
pushValue(value, rest) == [values |-> <<value>> \o rest.values, threw |-> rest.threw]

\* The loop over the parameters of handlePreparedStatementExecute:
\* decodeNext is its body for one index.
RECURSIVE decodeParameters(_, _, _, _, _, _)
decodeNext(payload, offset, nullBitmap, paramTypes, index, paramCount, isNull, parsed) ==
    IF ~isNull /\ parsed.threw THEN [values |-> << >>, threw |-> TRUE]
    ELSE pushValue(IF isNull THEN NullValue ELSE parsed.value,
                   decodeParameters(payload,
                                    IF isNull THEN offset ELSE offset + parsed.consumed,
                                    nullBitmap, paramTypes, index + 1, paramCount))

decodeParameters(payload, offset, nullBitmap, paramTypes, index, paramCount) ==
    IF index >= paramCount THEN [values |-> << >>, threw |-> FALSE]
    ELSE decodeNext(payload, offset, nullBitmap, paramTypes, index, paramCount,
                    isNullAt(nullBitmap, index),
                    parseBinaryParameterValue(payload, offset, paramTypes[index + 1].type,
                                              paramTypes[index + 1].unsigned))

\* return executeSql(...) with the decoded values; an exception of the
\* decoding is answered by the handler's catch.
executeDecoded(sequenceId, bound, sql, decoded) ==
    IF decoded.threw
    THEN Result(bound, Reply(0, <<buildErrPacket(sequenceId,
                                     Message("out of range", << >>))>>))
    ELSE AdoptedResult(executeSql(sequenceId, bound, sql, decoded.values, TRUE))

\* handlePreparedStatementExecute once statement.paramTypes is assigned.
executeTyped(sequenceId, ctx, payload, statementId, statement, nullBitmap, paramTypes, valuesAt) ==
    executeDecoded(sequenceId,
                   Context([ctx.conn EXCEPT !.preparedStatements[statementId].paramTypes =
                                                paramTypes],
                           ctx.databases, ctx.files),
                   statement.sql,
                   decodeParameters(payload, valuesAt, nullBitmap, paramTypes, 0,
                                    statement.paramCount))

\* handlePreparedStatementExecute for a registered statement: the null
\* bitmap, the new-params-bound flag and the types.
executeKnown(sequenceId, ctx, payload, statementId, statement) ==
    LET paramCount == statement.paramCount
        nullBitmapLength == (paramCount + 7) \div 8
        flagAt == 10 + nullBitmapLength
        newParamsBoundFlag == byteAt(payload, flagAt) \notin {Undefined, 0}
        sent == [i \in 1..paramCount |->
                    ParamType(byteAt(payload, flagAt + 1 + 2 * (i - 1)),
                              orZero(byteAt(payload, flagAt + 2 + 2 * (i - 1))) >= 128)]
    IN  executeTyped(sequenceId, ctx, payload, statementId, statement,
                     subarray(payload, 10, flagAt),
                     IF paramCount = 0 THEN statement.paramTypes
                     ELSE IF newParamsBoundFlag THEN sent
                     ELSE IF \E i \in 1..paramCount : statement.paramTypes[i].type = Undefined
                     THEN [i \in 1..paramCount |-> DefaultParamType]
                     ELSE statement.paramTypes,
                     flagAt + 1 + (IF newParamsBoundFlag THEN 2 * paramCount ELSE 0))

\* handlePreparedStatementExecute from "const statement = ..." on.
executeById(sequenceId, ctx, payload, statementId) ==
    IF statementId \notin DOMAIN ctx.conn.preparedStatements
    THEN Result(ctx, Reply(0, <<buildErrPacket(sequenceId,
                                   Message("Unknown statement", <<statementId>>))>>))
    ELSE executeKnown(sequenceId, ctx, payload, statementId,
                      ctx.conn.preparedStatements[statementId])

\* handlePreparedStatementExecute(sequenceId, connection, payload)
handlePreparedStatementExecute(sequenceId, ctx, payload) ==
    IF Len(payload) < 5
    THEN Result(ctx, Reply(0, <<buildErrPacket(sequenceId,
                                   Message("Malformed execute command", << >>))>>))
    ELSE executeById(sequenceId, ctx, payload, readUIntLE(payload, 1, 4))
\* handlePreparedStatementClose(connection, payload)
handlePreparedStatementClose(conn, payload) ==
    IF Len(payload) < 5 THEN conn
    ELSE [conn EXCEPT !.preparedStatements =
            [id \in DOMAIN @ \ {readUIntLE(payload, 1, 4)} |-> @[id]]]


(***************************************************************************)
(* The connection handler.  Run is the state one data callback works on:   *)
(* the connection, the shared state, the packets written so far (out), the *)
(* packets written to an ended socket and lost (dropped), the replies of   *)
(* the handlers still to be written by their .then callbacks (jobs), and   *)
(* the packets framed in this callback (received: sequence id, length, the *)
(* first bytes of the payload, the connection's state and the socket's).   *)
(***************************************************************************)
Tagged(n, cmdSeq, packets) ==
    [i \in 1..Len(packets) |-> [n |-> n, cmdSeq |-> cmdSeq, pkt |-> packets[i]]]

\* socket.write(packet) that also counts a query for every reply written.
socketWriteCounted(run, n, cmdSeq, packets) ==
    IF run.conn.socket = "open"
    THEN [run EXCEPT !.out = @ \o Tagged(n, cmdSeq, packets), !.queryCount = @ + 1]
    ELSE [run EXCEPT !.dropped = @ \o Tagged(n, cmdSeq, packets),
                     !.conn.socket = IF packets = << >> THEN @ ELSE "destroyed"]

\* socket.write(packet): after socket.end() the write fails with
\* ERR_STREAM_WRITE_AFTER_END, the packet is not sent and the socket is
\* destroyed (the "error" listener calls socket.destroy()).
socketWrite(run, n, cmdSeq, packets) ==
    IF run.conn.socket = "open"
    THEN [run EXCEPT !.out = @ \o Tagged(n, cmdSeq, packets)]
    ELSE [run EXCEPT !.dropped = @ \o Tagged(n, cmdSeq, packets),
                     !.conn.socket = IF packets = << >> THEN @ ELSE "destroyed"]

\* The same with "state.queryCount += 1" in front of every handler that
\* answers through .then.
thenSendCounting(run, n, cmdSeq, result) ==
    [run EXCEPT !.conn = result.ctx.conn,
                !.databases = result.ctx.databases,
                !.files = result.ctx.files,
                !.queryCount = @ + 1,
                !.jobs = Append(@, [n |-> n, cmdSeq |-> cmdSeq, reply |-> result.reply])]

\* handler(1, ...).then((packets) => sendPackets(connection.socket, packets))
thenSend(run, n, cmdSeq, result) ==
    [run EXCEPT !.conn = result.ctx.conn,
                !.databases = result.ctx.databases,
                !.files = result.ctx.files,
                !.jobs = Append(@, [n |-> n, cmdSeq |-> cmdSeq, reply |-> result.reply])]

RunContext(run) == Context(run.conn, run.databases, run.files)

\* handleCommand(connection, payload, sequenceId): every reply starts at
\* sequence id 1.
handleCommand(run, n, payload, sequenceId) ==
    LET command == payload[1]
        sqlString == subarray(payload, 1, Len(payload))
        counted == [run EXCEPT !.queryCount = @ + 1]
    IN  IF Len(payload) = 0 THEN run
        ELSE IF command = MYSQL_COMMAND_QUIT
        THEN [run EXCEPT !.conn.socket = IF @ = "open" THEN "ended" ELSE @]
        ELSE IF command = MYSQL_COMMAND_INIT_DB
        THEN thenSend(counted, n, sequenceId,
                      handleUseDatabase(1, RunContext(run), sqlString))
        ELSE IF command = MYSQL_COMMAND_QUERY
        THEN thenSend(counted, n, sequenceId, handleQuery(1, RunContext(run), sqlString))
        ELSE IF command = MYSQL_COMMAND_STMT_PREPARE
        THEN thenSend(run, n, sequenceId,
                      handlePreparedStatementPrepare(1, RunContext(run), sqlString))
        ELSE IF command = MYSQL_COMMAND_STMT_EXECUTE
        THEN thenSend(counted, n, sequenceId,
                      handlePreparedStatementExecute(1, RunContext(run), payload))
        ELSE IF command = MYSQL_COMMAND_STMT_CLOSE
        THEN [run EXCEPT !.conn = handlePreparedStatementClose(@, payload)]
        ELSE IF command = MYSQL_COMMAND_PING
        THEN socketWrite(run, n, sequenceId,
                         <<buildOkPacket(1, 0, Message("Pong", << >>))>>)
        ELSE socketWrite(run, n, sequenceId,
                         <<buildErrPacket(1, Message("Command not supported", <<command>>))>>)

\* The handshake branch of the data callback after parseHandshakeResponse:
\* one OK with the next sequence id, state "ready".
welcome(run, n, sequenceId) ==
    [socketWrite(run, n, sequenceId,
                 <<buildOkPacket(sequenceId + 1, 0, Message("Welcome", << >>))>>)
        EXCEPT !.conn.state = "ready"]

\* connection.currentDatabase = databaseName and the refresh whose failure
\* parseHandshakeResponse ignores.
useParsed(run, databaseName, got) ==
    [run EXCEPT !.conn.currentDatabase = databaseName,
                !.databases = got.databases,
                !.files = got.files]

\* The end of parseHandshakeResponse and the reply; an exception of the
\* parse leaves the callback.
greet(run, n, sequenceId, parsed) ==
    IF parsed.threw THEN [run EXCEPT !.threw = TRUE]
    ELSE IF parsed.databaseName # Null /\ parsed.databaseName # << >>
    THEN welcome(useParsed([run EXCEPT !.conn.username = parsed.username],
                           parsed.databaseName,
                           refreshDatabaseMetadata(run.databases, run.files,
                                                   parsed.databaseName)),
                 n, sequenceId)
    ELSE welcome([run EXCEPT !.conn.username = parsed.username], n, sequenceId)

\* The handshake branch of the data callback.
handleHandshake(run, n, payload, sequenceId) ==
    greet(run, n, sequenceId, parseHandshakeResponse(payload))
\* The while loop of socket.on("data"): frames the packets the buffer holds
\* and handles each by the connection's state.
RECURSIVE frameLoop(_)
frameLoop(run) ==
    LET buffer == run.conn.buffer
        totalLength == readUIntLE(buffer, 0, 3) + 4
        sequenceId == buffer[4]
        payload == subarray(buffer, 4, totalLength)
        n == Len(run.received) + 1
        mode == IF run.conn.state \in {"handshake", "ready"} THEN run.conn.state
                ELSE "ignored"
        framed == [run EXCEPT !.conn.buffer = subarray(buffer, totalLength, Len(buffer)),
                              !.received = Append(@, [seq |-> sequenceId,
                                                      payload |-> subarray(payload, 0,
                                                                           MaxRecorded),
                                                      length |-> Len(payload),
                                                      mode |-> mode,
                                                      socket |-> run.conn.socket])]
    IN  IF run.threw \/ Len(buffer) < 4 THEN run
        ELSE IF Len(buffer) < totalLength THEN run
        ELSE IF mode = "handshake"
        THEN frameLoop(handleHandshake(framed, n, payload, sequenceId))
        ELSE IF mode = "ready"
        THEN frameLoop(handleCommand(framed, n, payload, sequenceId))
        ELSE frameLoop(framed)

(***************************************************************************)
(* The promise jobs a data callback leaves behind.                         *)
(***************************************************************************)
\* The cached tables of a registered database.
TablesOf(dbs, name) ==
    IF DatabaseIndex(dbs, name) = 0 THEN << >> ELSE dbs[DatabaseIndex(dbs, name)].tables

\* The round of promise jobs in which a handler's promise is settled.
\* handleDescribe returns after one await when the table is unknown.
RECURSIVE adoptedAt(_, _)
adoptedAt(settled, adopted) ==
    IF adopted = 0 THEN settled
    ELSE adoptedAt(IF settled <= 1 THEN 2 ELSE settled + 1, adopted - 1)

settledAt(reply, run) ==
    adoptedAt(IF reply.kind = "describe"
                 /\ TableNamed(TablesOf(run.databases, reply.current), reply.tableName) = 0
              THEN 1 ELSE reply.settled,
              reply.adopted)

\* The packets of a reply, built from the connection and the registry as
\* they are once the data callback has returned.
replyPackets(reply, run) ==
    LET tables == TablesOf(run.databases, reply.current)
        t == TableNamed(tables, reply.tableName)
    IN  CASE reply.kind = "packets" -> reply.packets
          [] reply.kind = "resultset" ->
                sendResultSet(reply.sequenceId, run.conn.currentDatabase, reply.columns,
                              reply.rows, << >>, << >>, reply.binary)
          [] reply.kind = "showtables" ->
                sendResultSet(reply.sequenceId, run.conn.currentDatabase,
                              <<TXT_Tables_in_ \o reply.current>>,
                              [i \in 1..Len(tables) |-> <<TextValue(tables[i].name)>>],
                              reply.current, TXT_tables, FALSE)
          [] reply.kind = "describe" ->
                IF t = 0
                THEN <<buildErrPacket(reply.sequenceId,
                                      Message("Unknown table", reply.tableName))>>
                ELSE sendResultSet(reply.sequenceId, run.conn.currentDatabase, <<TXT_Field>>,
                                   [i \in 1..Len(tables[t].columns) |->
                                       <<TextValue(tables[t].columns[i])>>],
                                   reply.current, reply.tableName, FALSE)
          [] reply.kind = "prepare" ->
                preparePackets(reply.sequenceId, run.conn.currentDatabase,
                               reply.statementId, 0, reply.columns)

\* The jobs in the order their .then callbacks run: by the round in which
\* the handler's promise settles, and within a round in dispatch order.
RECURSIVE jobsFrom(_, _)
jobsFrom(run, round) ==
    IF \A i \in 1..Len(run.jobs) : settledAt(run.jobs[i].reply, run) < round THEN << >>
    ELSE SelectSeq(run.jobs, LAMBDA j : settledAt(j.reply, run) = round)
         \o jobsFrom(run, round + 1)

RECURSIVE sendAll(_, _)
sendAll(run, jobs) ==
    IF jobs = << >> THEN run
    ELSE sendAll(IF Head(jobs).reply.rejected THEN run
                 ELSE socketWrite(run, Head(jobs).n, Head(jobs).cmdSeq,
                                  replyPackets(Head(jobs).reply, run)),
                 Tail(jobs))

\* An exception thrown out of the data callback ends the process at once;
\* otherwise the promise jobs run and write the replies.
drain(run) == IF run.threw THEN run ELSE sendAll(run, jobsFrom(run, 0))

\* socket.on("data", chunk) without "Buffer.concat([connection.buffer, chunk])":
\* the bytes an earlier chunk left are forgotten.
onDataForgetful(conn, dbs, fs, count, chunk) ==
    drain(frameLoop([conn |-> [conn EXCEPT !.buffer = chunk],
                     databases |-> dbs, files |-> fs, queryCount |-> count,
                     out |-> << >>, dropped |-> << >>, jobs |-> << >>,
                     received |-> << >>, threw |-> FALSE]))

\* socket.on("data", chunk) as a whole.
onData(conn, dbs, fs, count, chunk) ==
    drain(frameLoop([conn |-> [conn EXCEPT !.buffer = @ \o chunk],
                     databases |-> dbs, files |-> fs, queryCount |-> count,
                     out |-> << >>, dropped |-> << >>, jobs |-> << >>,
                     received |-> << >>, threw |-> FALSE]))


(***************************************************************************)
(* The clients: the packets they frame and the byte streams they send.     *)
(***************************************************************************)
\* A client packet: 3-byte little-endian length, sequence id, payload.
ClientPacket(sequenceId, payload) == writeUIntLE(Len(payload), 3) \o <<sequenceId>> \o payload

Command(sequenceId, command, body) == ClientPacket(sequenceId, <<command>> \o body)
Query(sql) == Command(0, MYSQL_COMMAND_QUERY, sql)

\* A handshake response: capabilities, max packet size, charset, 23
\* reserved bytes, and then the fields the capabilities announce.
HandshakeResponse(capabilities, fields) ==
    ClientPacket(1, writeUIntLE(capabilities, 4) \o <<0, 0, 0, 1, 45>>
                    \o [i \in 1..23 |-> 0] \o fields)

CLIENT_PROTOCOL_41 == 512
PlainCapabilities == CLIENT_PROTOCOL_41 + CLIENT_SECURE_CONNECTION
DbCapabilities == PlainCapabilities + CLIENT_CONNECT_WITH_DB

\* user "u", empty auth response
HS_PLAIN == HandshakeResponse(PlainCapabilities, <<117, 0, 0>>)
\* user "u", empty auth response, database "d" / "x"
HS_DB_D == HandshakeResponse(DbCapabilities, <<117, 0, 0, 100, 0>>)
HS_DB_X == HandshakeResponse(DbCapabilities, <<117, 0, 0, 120, 0>>)
\* user "u", empty auth response, database "a-b" / "a_b"
HS_DB_A_MINUS_B == HandshakeResponse(DbCapabilities, <<117, 0, 0, 97, 45, 98, 0>>)
HS_DB_A_UNDER_B == HandshakeResponse(DbCapabilities, <<117, 0, 0, 97, 95, 98, 0>>)
\* a payload of three bytes
HS_SHORT == ClientPacket(1, <<8, 130, 0>>)
\* the user name is not terminated: the auth-response length and the
\* database name lie past the end of the payload
HS_TRUNCATED == HandshakeResponse(DbCapabilities, <<117>>)

\* COM_STMT_EXECUTE: statement id, flags, iteration count, then the
\* null bitmap, the new-params-bound flag, the types and the values.
Execute(statementId, rest) ==
    Command(0, MYSQL_COMMAND_STMT_EXECUTE,
            writeUIntLE(statementId, 4) \o <<0>> \o writeUIntLE(1, 4) \o rest)

PING == Command(0, MYSQL_COMMAND_PING, << >>)
PING_7 == Command(7, MYSQL_COMMAND_PING, << >>)
QUIT == Command(0, MYSQL_COMMAND_QUIT, << >>)
INIT_DB_D == Command(0, MYSQL_COMMAND_INIT_DB, <<100>>)
INIT_DB_X == Command(0, MYSQL_COMMAND_INIT_DB, <<120>>)
INIT_DB_EMPTY == Command(0, MYSQL_COMMAND_INIT_DB, << >>)
PREPARE_INSERT == Command(0, MYSQL_COMMAND_STMT_PREPARE, SQL_INSERT_P)
PREPARE_SELECT == Command(0, MYSQL_COMMAND_STMT_PREPARE, SQL_SELECT_T)
PREPARE_EMPTY == Command(0, MYSQL_COMMAND_STMT_PREPARE, <<32>>)
\* an INSERT without placeholders
PREPARE_INSERT_T == Command(0, MYSQL_COMMAND_STMT_PREPARE, SQL_INSERT_T)
\* one LONG parameter, types sent, value 7
EXECUTE_1_LONG == Execute(1, <<0, 1, MYSQL_TYPE_LONG, 0>> \o writeUIntLE(7, 4))
\* no types sent, one length-prefixed value "7"
EXECUTE_1_TEXT == Execute(1, <<0, 0, 1, 55>>)
EXECUTE_2 == Execute(2, << >>)
EXECUTE_UNKNOWN == Execute(9, << >>)
CLOSE_1 == Command(0, MYSQL_COMMAND_STMT_CLOSE, writeUIntLE(1, 4))
UNKNOWN_COMMAND == Command(0, 153, << >>)
EMPTY_PACKET == ClientPacket(0, << >>)

\* What a client sends first, and what it sends afterwards: single
\* commands, and several commands written to the socket at once.
HandshakeStreams ==
    {HS_PLAIN, HS_DB_D, HS_DB_X, HS_DB_A_MINUS_B, HS_DB_A_UNDER_B, HS_SHORT, HS_TRUNCATED,
     HS_PLAIN \o PING}

CommandStreams ==
    {PING, PING_7, QUIT, INIT_DB_D, INIT_DB_X, INIT_DB_EMPTY,
     Query(SQL_SELECT_1), Query(SQL_CREATE_T), Query(SQL_INSERT_T), Query(SQL_SELECT_T),
     Query(SQL_DROP_T), Query(SQL_USE_D), Query(SQL_USE_EMPTY), Query(SQL_CREATE_DB_X),
     Query(SQL_CREATE_DB_D), Query(SQL_DESCRIBE_T),
     Query(TXT_SHOW_TABLES), Query(<< >>),
     PREPARE_INSERT, PREPARE_SELECT, PREPARE_EMPTY, PREPARE_INSERT_T,
     EXECUTE_1_LONG, EXECUTE_1_TEXT, EXECUTE_2, EXECUTE_UNKNOWN, CLOSE_1,
     UNKNOWN_COMMAND, EMPTY_PACKET,
     Query(SQL_SELECT_1) \o PING,
     Query(SQL_SELECT_T) \o Query(<< >>),
     Query(SQL_DROP_T) \o QUIT,
     Query(SQL_CREATE_T) \o QUIT,
     QUIT \o Query(SQL_USE_D),
     QUIT \o PREPARE_INSERT \o PING,
     EXECUTE_1_TEXT \o QUIT,
     Query(TXT_SHOW_TABLES) \o QUIT,
     INIT_DB_D \o QUIT}

\* The places where the socket may cut a stream into two chunks.
Cuts(stream) == IF stream \in {PING, Query(SQL_SELECT_1) \o PING} THEN {2, Len(stream) - 1}
                ELSE {}

(***************************************************************************)
(* The state machine.                                                      *)
(***************************************************************************)
NoEvent == [kind |-> "none", conn |-> 0, out |-> << >>, dropped |-> << >>,
            received |-> << >>, jobs |-> << >>]

\* start() has resolved: no connection, state.queryCount = 0, an empty data
\* directory, and the server listens.
Init ==
    /\ crashed = FALSE
    /\ queryCount = 0
    /\ databases = << >>
    /\ files = << >>
    /\ nextConnectionId = 0
    /\ listening = TRUE
    /\ connections = << >>
    /\ clientPending = << >>
    /\ last = NoEvent
    /\ returnedIds = << >>
    /\ events = 0

\* The connection object createConnectionHandler builds, after sendHandshake.
NewConnection(id) ==
    [id |-> id, socket |-> "open", buffer |-> << >>, state |-> "handshake",
     currentDatabase |-> Null, username |-> << >>, preparedStatements |-> << >>,
     nextStatementId |-> 1]

\* net.createServer's callback: a client connects.
Accept ==
    /\ ~crashed
    /\ listening
    /\ nextConnectionId < MaxConnections
    /\ nextConnectionId' = nextConnectionId + 1
    /\ connections' = Append(connections, NewConnection(nextConnectionId + 1))
    /\ clientPending' = Append(clientPending, << >>)
    /\ returnedIds' = Append(returnedIds, << >>)
    /\ last' = [NoEvent EXCEPT !.kind = "accept", !.conn = nextConnectionId + 1,
                               !.out = Tagged(0, 0, <<HandshakePacket(nextConnectionId + 1)>>)]
    /\ UNCHANGED <<crashed, queryCount, databases, files, listening, events>>

\* The bounds on what the engine and the registries hold.
WithinBounds(run) ==
    /\ run.conn.nextStatementId <= MaxStatements + 1
    /\ \A f \in DOMAIN run.files : \A t \in 1..Len(run.files[f]) :
            Len(run.files[f][t].rows) <= MaxRows

\* The statement ids of the prepare-OK packets among the packets written.
PrepareOkIds(out) ==
    LET oks == SelectSeq(out, LAMBDA e : e.pkt.type = "PREPARE_OK")
    IN  [k \in 1..Len(oks) |-> oks[k].pkt.info.statementId]

\* socket.on("data"): the chunk is handled and the promise jobs run.  A
\* rejected promise nobody handles terminates the process, as does an
\* exception thrown by the callback.
Deliver(c, chunk, rest) ==
    \E run \in {onData(connections[c], databases, files, queryCount, chunk)} :
        /\ WithinBounds(run)
        /\ crashed' = (run.threw \/ \E i \in 1..Len(run.jobs) : run.jobs[i].reply.rejected)
        /\ queryCount' = run.queryCount
        /\ databases' = run.databases
        /\ files' = run.files
        /\ connections' = [connections EXCEPT ![c] = run.conn]
        /\ clientPending' = [clientPending EXCEPT ![c] = rest]
        /\ last' = [kind |-> "data", conn |-> c, out |-> run.out, dropped |-> run.dropped,
                    received |-> run.received, jobs |-> run.jobs]
        /\ returnedIds' = [returnedIds EXCEPT ![c] = @ \o PrepareOkIds(run.out)]
        /\ events' = events + 1
        /\ UNCHANGED <<nextConnectionId, listening>>

Streams(c) == IF connections[c].state = "handshake" /\ connections[c].buffer = << >>
              THEN HandshakeStreams ELSE CommandStreams

\* A client writes a stream and the socket delivers it in one chunk.
Data(c) ==
    /\ ~crashed
    /\ events < MaxEvents
    /\ connections[c].socket # "destroyed"
    /\ clientPending[c] = << >>
    /\ \E stream \in Streams(c) : Deliver(c, stream, << >>)

\* The socket delivers the first bytes of a stream only.
DataCut(c) ==
    /\ ~crashed
    /\ events < MaxEvents
    /\ connections[c].socket # "destroyed"
    /\ clientPending[c] = << >>
    /\ \E stream \in Streams(c) : \E k \in Cuts(stream) :
            Deliver(c, SubSeq(stream, 1, k), SubSeq(stream, k + 1, Len(stream)))

\* The socket delivers the rest of a stream.
DataRest(c) ==
    /\ ~crashed
    /\ events < MaxEvents
    /\ connections[c].socket # "destroyed"
    /\ clientPending[c] # << >>
    /\ Deliver(c, clientPending[c], << >>)

Next ==
    \/ Accept
    \/ \E c \in 1..nextConnectionId : Data(c)
    \/ \E c \in 1..nextConnectionId : DataCut(c)
    \/ \E c \in 1..nextConnectionId : DataRest(c)

Spec == Init /\ [][Next]_vars

\* The same server with clients that also prepare a statement of 65536
\* placeholders, one more than the prepare-OK packet can announce.
SQL_LONG == [i \in 1..(UINT16_MAX + 1) |-> 63]
PREPARE_LONG == Command(0, MYSQL_COMMAND_STMT_PREPARE, SQL_LONG)

LongStreams(c) ==
    IF connections[c].state = "handshake" /\ connections[c].buffer = << >>
    THEN {HS_PLAIN}
    ELSE {PREPARE_LONG \o CLOSE_1 \o PREPARE_INSERT,
          PREPARE_INSERT, PREPARE_EMPTY, CLOSE_1, Query(SQL_USE_D), PING}

DataLong(c) ==
    /\ ~crashed
    /\ events < MaxEvents
    /\ connections[c].socket # "destroyed"
    /\ \E stream \in LongStreams(c) : Deliver(c, stream, << >>)

NextLong ==
    \/ Accept
    \/ \E c \in 1..nextConnectionId : DataLong(c)

SpecLong == Init /\ [][NextLong]_vars

\* The same server with clients that work through the statements of a
\* session on the table items, one command per chunk: at each step a client
\* sends the statement of the script or one of the step's alternatives.
HS_DB_DEMO == HandshakeResponse(DbCapabilities, <<117, 0, 0>> \o TXT_demo \o <<0>>)
PREPARE_UPDATE == Command(0, MYSQL_COMMAND_STMT_PREPARE, SQL_UPDATE_ITEMS)
\* types VAR_STRING and LONG sent, values "bar" and 1
EXECUTE_BAR_1 ==
    Execute(1, <<0, 1, MYSQL_TYPE_VAR_STRING, 0, MYSQL_TYPE_LONG, 0, 3>> \o TXT_bar
               \o writeUIntLE(1, 4))
\* the same with the first parameter marked in the null bitmap: NULL and 1
EXECUTE_NULL_1 ==
    Execute(1, <<1, 1, MYSQL_TYPE_VAR_STRING, 0, MYSQL_TYPE_LONG, 0>> \o writeUIntLE(1, 4))
\* the packet ends behind the iteration count
EXECUTE_CUT == Execute(1, << >>)

DemoScript ==
    <<Query(SQL_CREATE_DB_DEMO), Query(SQL_USE_DEMO), Query(SQL_CREATE_ITEMS),
      Query(SQL_INSERT_FOO), Query(SQL_SELECT_ITEMS), Query(SQL_INSERT_FOO),
      PREPARE_UPDATE, EXECUTE_BAR_1, Query(SQL_SELECT_NAME), EXECUTE_NULL_1,
      Query(SQL_DELETE_ITEMS)>>

\* types sent, but the packet ends behind the type of the first parameter
EXECUTE_HALF == Execute(1, <<0, 1, MYSQL_TYPE_LONG, 0>>)
\* no types sent, values "demo" and 1 as a string and a LONG
EXECUTE_REUSE == Execute(1, <<0, 0, 4>> \o TXT_demo \o writeUIntLE(1, 4))

\* a statement without placeholders that is no SELECT
PREPARE_SHOW == Command(0, MYSQL_COMMAND_STMT_PREPARE, TXT_SHOW_DATABASES)

DemoAlternatives(step) ==
    IF step = 10 THEN {PING, EXECUTE_CUT, EXECUTE_HALF, PREPARE_SHOW}
    ELSE IF step = 11 THEN {PING, EXECUTE_REUSE}
    ELSE {PING}

\* The steps taken: the chunks delivered that were not handshake responses.
DemoPosition ==
    events - Cardinality({c \in DOMAIN connections : connections[c].state # "handshake"})

DemoStreams(c) ==
    IF connections[c].state = "handshake" THEN {HS_PLAIN, HS_DB_DEMO}
    ELSE IF DemoPosition < Len(DemoScript)
    THEN {DemoScript[DemoPosition + 1]} \cup DemoAlternatives(DemoPosition + 1)
    ELSE {}

DataDemo(c) ==
    /\ ~crashed
    /\ connections[c].socket # "destroyed"
    /\ \E stream \in DemoStreams(c) : Deliver(c, stream, << >>)

NextDemo ==
    \/ Accept
    \/ \E c \in 1..nextConnectionId : DataDemo(c)

SpecDemo == Init /\ [][NextDemo]_vars

\* The functions of the codec, applied to inputs of bounded sets: each
\* action applies one function and records the input and what it
\* returned.
MaxSmallLength == 40
LengthValues ==
    (0..MaxSmallLength) \cup (250..256)
        \cup {65534, 65535, 65536, 65537, 16777215, 16777216, 16777217, 2147483647}

\* buffers that start with each of the lead bytes
LengthBuffers ==
    {<<lead, 1, 2, 3, 4, 0, 0, 0, 0>> : lead \in 248..255} \cup {<<251>>, <<250>>, << >>}

Applied(function, input, returned) ==
    [kind |-> function, input |-> input, returned |-> returned]

WriteLength ==
    /\ \E value \in LengthValues :
          last' = Applied("writeLengthEncodedInteger", value,
                          [written |-> writeLengthEncodedInteger(value),
                           read |-> readLengthEncodedInteger(
                                        writeLengthEncodedInteger(value), 0)])
    /\ UNCHANGED <<crashed, queryCount, databases, files, nextConnectionId, listening,
                   connections, clientPending, returnedIds, events>>

ReadLength ==
    /\ \E buffer \in LengthBuffers :
          last' = Applied("readLengthEncodedInteger", buffer,
                          readLengthEncodedInteger(buffer, 0))
    /\ UNCHANGED <<crashed, queryCount, databases, files, nextConnectionId, listening,
                   connections, clientPending, returnedIds, events>>

\* SQL texts: every text of up to MaxSqlLen characters over the three
\* quotes, the backslash, the placeholder and a letter, the statement
\* SELECT * FROM t WHERE a = ? AND b = '?', and the texts '\\'? and "\\"?
\* whose string literal ends in an escaped backslash.
MaxSqlLen == 4
SqlAlphabet == {39, 34, 96, 92, 63, 97}
SQL_WHERE ==
    <<83, 69, 76, 69, 67, 84, 32, 42, 32, 70, 82, 79, 77, 32, 116, 32, 87, 72, 69, 82, 69,
      32, 97, 32, 61, 32, 63, 32, 65, 78, 68, 32, 98, 32, 61, 32, 39, 63, 39>>
SQL_BACKSLASH_SINGLE == <<39, 92, 92, 39, 63>>
SQL_BACKSLASH_DOUBLE == <<34, 92, 92, 34, 63>>
SqlTexts ==
    UNION {[1..n -> SqlAlphabet] : n \in 0..MaxSqlLen}
        \cup {SQL_WHERE, SQL_BACKSLASH_SINGLE, SQL_BACKSLASH_DOUBLE}

CountParameters ==
    /\ \E sql \in SqlTexts :
          last' = Applied("countStatementParameters", sql, countStatementParameters(sql))
    /\ UNCHANGED <<crashed, queryCount, databases, files, nextConnectionId, listening,
                   connections, clientPending, returnedIds, events>>

\* LONGLONG parameters: 8 little-endian bytes whose lowest byte, the byte
\* of the bits 48..55 and the highest byte vary, and each unsigned flag.
LonglongBuffers ==
    {<<lowest, 0, 0, 0, 0, 0, middle, highest>> :
        lowest \in {0, 1, 2, 3, 255}, middle \in {0, 32, 64, 255},
        highest \in {0, 1, 127, 128, 255}}
        \cup {<<255, 255, 255, 255, 255, 255, 255, 255>>,
              <<255, 255, 255, 255, 255, 255, 255, 127>>,
              <<255, 255, 255, 127, 0, 0, 0, 0>>, <<0, 0, 0, 128, 0, 0, 0, 0>>,
              <<1, 2, 3>>}

DecodeLonglong ==
    /\ \E buffer \in LonglongBuffers, unsignedFlag \in BOOLEAN :
          last' = Applied("parseBinaryParameterValue",
                          [buffer |-> buffer, unsignedFlag |-> unsignedFlag],
                          parseBinaryParameterValue(buffer, 0, MYSQL_TYPE_LONGLONG,
                                                    unsignedFlag))
    /\ UNCHANGED <<crashed, queryCount, databases, files, nextConnectionId, listening,
                   connections, clientPending, returnedIds, events>>

NextCodec ==
    \/ WriteLength
    \/ ReadLength
    \/ CountParameters
    \/ DecodeLonglong

SpecCodec == Init /\ [][NextCodec]_vars


(***************************************************************************)
(* The binary protocol of prepared statements, byte by byte: the rows the  *)
(* server writes and the parameters it reads, applied to inputs of bounded *)
(* sets.                                                                   *)
(***************************************************************************)
\* typeof value === "string" ? value : String(value)
stringValue(value) ==
    IF value[1] = 2 THEN value[2]
    ELSE IF value[2][1] < 0 THEN <<45>> \o digits(0 - value[2][1])
    ELSE digits(value[2][1])

\* writeLengthEncodedString(value)
writeLengthEncodedString(value) == writeLengthEncodedInteger(Len(value)) \o value

\* value === null || value === undefined, for values[index]
isNullValue(values, index) == index >= Len(values) \/ values[index + 1] = NullValue

\* The null bitmap buildBinaryRowPacket fills: the bit of column index is
\* bit (index + first) of the bitmap.
binaryRowNullBitmap(values, columnCount, first) ==
    [b \in 1..((columnCount + 2 + 7) \div 8) |->
        LET bit(k) == IF /\ 8 * (b - 1) + k - first \in 0..(columnCount - 1)
                         /\ isNullValue(values, 8 * (b - 1) + k - first)
                      THEN 2 ^ k ELSE 0
        IN  bit(0) + bit(1) + bit(2) + bit(3) + bit(4) + bit(5) + bit(6) + bit(7)]

\* The parts buildBinaryRowPacket pushes for the columns from index on.
RECURSIVE binaryRowValues(_, _, _)
binaryRowValues(values, index, columnCount) ==
    IF index >= columnCount THEN << >>
    ELSE (IF isNullValue(values, index) THEN << >>
          ELSE writeLengthEncodedString(stringValue(values[index + 1])))
         \o binaryRowValues(values, index + 1, columnCount)

\* buildBinaryRowPacket with "const bit = index % 8" and
\* "Math.floor(index / 8)": the bitmap starts at bit 0.
buildBinaryRowPayloadFromBitZero(values, columnCount) ==
    <<0>> \o binaryRowNullBitmap(values, columnCount, 0)
          \o binaryRowValues(values, 0, columnCount)

\* The payload of buildBinaryRowPacket(sequenceId, values, columnCount): the
\* header byte, the null bitmap and the values that are not null.
buildBinaryRowPayload(values, columnCount) ==
    <<0>> \o binaryRowNullBitmap(values, columnCount, 2)
          \o binaryRowValues(values, 0, columnCount)

\* Rows: every row of up to MaxColumns columns over NULL, a number, a text
\* and the empty text; rows of 6 and 7 columns (the bitmap grows to two
\* bytes at 7) over NULL and a text; rows of 14 and 15 columns.
MaxColumns == 3
BinaryRows ==
    UNION {[1..n -> {NullValue, IntValue(12), TextValue(<<97>>), TextValue(<< >>)}] :
              n \in 0..MaxColumns}
        \cup UNION {[1..n -> {NullValue, TextValue(<<97>>)}] : n \in {6, 7}}
        \cup {[i \in 1..n |-> IF i % m = 0 THEN NullValue ELSE IntValue(0 - i)] :
                 n \in {14, 15}, m \in {1, 2, 3, 16}}

BuildBinaryRow ==
    /\ \E values \in BinaryRows :
          last' = Applied("buildBinaryRowPacket", values,
                          buildBinaryRowPayload(values, Len(values)))
    /\ UNCHANGED <<crashed, queryCount, databases, files, nextConnectionId, listening,
                   connections, clientPending, returnedIds, events>>

\* The parameters of a STMT_EXECUTE with two placeholders: a date or a time
\* with its length byte and that many of the bytes year (2 bytes), month,
\* day, hour, minute, second, microseconds (4 bytes), respectively sign,
\* days (4 bytes), hour, minute, second, microseconds (4 bytes); behind it
\* a LONG.  The first parameter may instead be marked in the null bitmap
\* and send no byte.
DateFields(month, microseconds) ==
    <<232, 7, month, 31, 23, 59, 58>> \o writeUIntLE(microseconds, 4)
TimeFields(negative, days, microseconds) ==
    <<negative>> \o writeUIntLE(days, 4) \o <<23, 59, 58>> \o writeUIntLE(microseconds, 4)

TemporalParameter(type, length, fields, isNull, second) ==
    [type |-> type, length |-> length, isNull |-> isNull, second |-> second,
     buffer |-> (IF isNull THEN << >> ELSE <<length>> \o SubSeq(fields, 1, length))
                    \o writeUIntLE(second, 4)]

TemporalParameters ==
    {TemporalParameter(type, length, DateFields(month, microseconds), FALSE, second) :
        type \in {MYSQL_TYPE_DATE, MYSQL_TYPE_DATETIME, MYSQL_TYPE_TIMESTAMP},
        length \in {0, 4, 7, 11}, month \in {1, 12}, microseconds \in {0, 1},
        second \in {7, 258}}
    \cup {TemporalParameter(MYSQL_TYPE_TIME, length, TimeFields(negative, days, microseconds),
                            FALSE, second) :
             length \in {0, 8, 12}, negative \in {0, 1}, days \in {0, 2},
             microseconds \in {0, 1}, second \in {7, 258}}
    \cup {TemporalParameter(type, 0, << >>, TRUE, second) :
             type \in {MYSQL_TYPE_DATE, MYSQL_TYPE_DATETIME, MYSQL_TYPE_TIMESTAMP,
                       MYSQL_TYPE_TIME},
             second \in {7, 258}}

\* The decoding loop of handlePreparedStatementExecute over the two
\* parameters, and the first parameter decoded on its own.
DecodeTemporal ==
    /\ \E input \in TemporalParameters :
          last' = Applied("decodeParameters", input,
                          [first |-> parseBinaryParameterValue(input.buffer, 0, input.type,
                                                               FALSE),
                           decoded |-> decodeParameters(
                                           input.buffer, 0,
                                           <<IF input.isNull THEN 1 ELSE 0>>,
                                           <<ParamType(input.type, FALSE),
                                             ParamType(MYSQL_TYPE_LONG, FALSE)>>,
                                           0, 2)])
    /\ UNCHANGED <<crashed, queryCount, databases, files, nextConnectionId, listening,
                   connections, clientPending, returnedIds, events>>

NextBinary ==
    \/ BuildBinaryRow
    \/ DecodeTemporal

SpecBinary == Init /\ [][NextBinary]_vars


(***************************************************************************)
(* The life cycle: the stop() that start() returns, and start() again.     *)
(***************************************************************************)
\* closeDatabases(): entry.db.close() for every entry, then
\* state.databases.clear().
closeDatabases(dbs) == << >>

\* clearDataDirectory() leaves the files of the directory in place.
clearDataDirectoryKeeps(fs) == fs

\* clearDataDirectory(): fs.rmSync of every entry of the data directory.
clearDataDirectory(fs) == << >>

\* socket.destroy(): the socket is closed and what it has not delivered is
\* discarded.
destroy(conn) == [conn EXCEPT !.socket = "destroyed"]

\* stop(): mysqlServer.stop() destroys every socket of the server and
\* closes the listener, then closeDatabases().
Stop ==
    /\ ~crashed
    /\ listening
    /\ connections' = [c \in DOMAIN connections |-> destroy(connections[c])]
    /\ clientPending' = [c \in DOMAIN clientPending |-> << >>]
    /\ listening' = FALSE
    /\ databases' = closeDatabases(databases)
    /\ last' = [NoEvent EXCEPT !.kind = "stop"]
    /\ UNCHANGED <<crashed, queryCount, files, nextConnectionId, returnedIds, events>>

\* start() after a stop(): closeDatabases(), state.queryCount = 0,
\* clearDataDirectory(), and startMySqlServer with a new serverState and a
\* new set of connections.  purged records the files the directory held.
Start ==
    /\ ~crashed
    /\ ~listening
    /\ databases' = closeDatabases(databases)
    /\ queryCount' = 0
    /\ files' = clearDataDirectory(files)
    /\ nextConnectionId' = 0
    /\ connections' = << >>
    /\ clientPending' = << >>
    /\ returnedIds' = << >>
    /\ listening' = TRUE
    /\ last' = [kind |-> "start", conn |-> 0, out |-> << >>, dropped |-> << >>,
                received |-> << >>, jobs |-> << >>, purged |-> DOMAIN files]
    /\ UNCHANGED <<crashed, events>>

\* The clients of a run: they connect with or without a database, create
\* and fill a table, create and select a database, list the databases,
\* prepare, execute and close a statement, ping, send an unknown command
\* or two commands at once, and quit.
LifecycleStreams(c) ==
    IF connections[c].state = "handshake" /\ connections[c].buffer = << >>
    THEN {HS_PLAIN, HS_DB_D}
    ELSE {Query(SQL_CREATE_T), Query(SQL_INSERT_T), Query(SQL_USE_D), INIT_DB_D,
          Query(SQL_CREATE_DB_DEMO), Query(TXT_SHOW_DATABASES),
          Query(toLowerCase(TXT_SHOW_DATABASES) \o <<32>>), PING, QUIT,
          PREPARE_INSERT, EXECUTE_1_TEXT, CLOSE_1, UNKNOWN_COMMAND,
          Query(SQL_SELECT_1) \o INIT_DB_D}

DataLifecycle(c) ==
    /\ ~crashed
    /\ events < MaxEvents
    /\ connections[c].socket # "destroyed"
    /\ \E stream \in LifecycleStreams(c) : Deliver(c, stream, << >>)

NextLifecycle ==
    \/ Accept
    \/ \E c \in 1..nextConnectionId : DataLifecycle(c)
    \/ Stop
    \/ Start

SpecLifecycle == Init /\ [][NextLifecycle]_vars

(***************************************************************************)
(* What the properties read from the last callback.                        *)
(***************************************************************************)
\* The packets written to the socket in reply to the n-th packet of the chunk.
RepliesTo(event, n) == SelectSeq(event.out, LAMBDA e : e.n = n)

\* The positions of the packets the last callback dispatched as commands.
CommandsOf(event) == {i \in DOMAIN event.received : event.received[i].mode = "ready"}

PayloadOf(stream) == subarray(stream, 4, Len(stream))

\* A handshake response in which the offset of a field lies past the end
\* of the payload: the capabilities, the end of the user name or the
\* length of the auth response.
OffsetPastEnd(payload) ==
    \/ Len(payload) < 33
    \/ indexOf(payload, 0, 32) < 0
    \/ indexOf(payload, 0, 32) + 1 >= Len(payload)

\* C1: a connection moves Initial -> HandshakePending -> Ready -> Closed;
\* on accept the handshake packet is written before anything is read; the
\* first complete client packet is consumed as the handshake response and
\* answered with exactly one OK; a packet is dispatched as a command only
\* while the connection is Ready (after the handshake, before QUIT).
C1_ForwardOnly ==
    [][/\ \A c \in DOMAIN connections :
            connections[c].state = "ready" => connections'[c].state = "ready"
       /\ last'.kind = "accept" =>
             /\ last'.out = Tagged(0, 0, <<HandshakePacket(last'.conn)>>)
             /\ last'.received = << >>
             /\ connections'[last'.conn].state = "handshake"
       /\ last'.kind = "data" =>
             \A i \in DOMAIN last'.received :
                LET r == last'.received[i]
                IN  /\ (r.mode = "handshake" /\ ~OffsetPastEnd(r.payload)) =>
                           /\ Len(RepliesTo(last', i)) = 1
                           /\ RepliesTo(last', i)[1].pkt.type = "OK"
                           /\ connections[last'.conn].state = "handshake"
                           /\ \A j \in 1..(i - 1) : last'.received[j].mode # "handshake"
                    /\ r.mode = "ready" => r.socket = "open"]_vars

\* C2: the reply to a command packet with sequence id s starts with
\* sequence id (s+1) mod 256 and goes on by one per packet, wrapping at 256.
C2_ReplySequence ==
    last.kind = "data" =>
        \A i \in CommandsOf(last) :
            LET reply == RepliesTo(last, i)
            IN  \A k \in DOMAIN reply :
                    reply[k].pkt.seq = (last.received[i].seq + k) % 256

\* C3: the replies are written in the order the commands arrived: every
\* packet of the reply to command k before any packet of the reply to
\* command k+1.
C3_ArrivalOrder ==
    \A k \in DOMAIN last.out : \A l \in DOMAIN last.out :
        k < l => last.out[k].n <= last.out[l].n

\* The protocol-level client errors the clients of the model make.
IsClientError(payload) ==
    \/ payload = PayloadOf(INIT_DB_EMPTY)
    \/ payload = PayloadOf(Query(SQL_USE_EMPTY))
    \/ payload = PayloadOf(Query(SQL_DROP_T))
    \/ payload = PayloadOf(EXECUTE_UNKNOWN)
    \/ payload = PayloadOf(UNKNOWN_COMMAND)

\* C4: a protocol-level client error in Ready is answered with exactly one
\* ERR packet and leaves the connection Ready and the server running.
C4_ClientErrorOneErr ==
    last.kind = "data" =>
        \A i \in CommandsOf(last) :
            (IsClientError(last.received[i].payload) /\ last.received[i].socket = "open") =>
                /\ Len(RepliesTo(last, i)) = 1
                /\ RepliesTo(last, i)[1].pkt.type = "ERR"
                /\ connections[last.conn].state = "ready"
                /\ ~crashed

\* The stored tables and the cached metadata of a database (none before
\* its first reference).
StoredData(dbs, fs, name) ==
    IF DatabaseIndex(dbs, name) = 0 THEN << >> ELSE fs[FileOf(dbs, name)]

\* C5: when the engine throws while executing a statement, the connection
\* gets exactly one ERR packet with the engine's message and stays Ready,
\* and its current database, its prepared statements and the stored data
\* and cached metadata of the target database are as before the statement.
C5_EngineErrorKeepsState ==
    [][\A j \in DOMAIN last'.jobs :
          (/\ last'.jobs[j].reply.engineError
           /\ last'.received[last'.jobs[j].n].socket = "open") =>
            LET c == last'.conn
                n == last'.jobs[j].n
                target == TargetOf(connections[c])
            IN  /\ Len(RepliesTo(last', n)) = 1
                /\ RepliesTo(last', n)[1].pkt = last'.jobs[j].reply.packets[1]
                /\ RepliesTo(last', n)[1].pkt.type = "ERR"
                /\ connections'[c].state = "ready"
                /\ Len(last'.received) = 1 =>
                      /\ connections'[c].currentDatabase = connections[c].currentDatabase
                      /\ connections'[c].preparedStatements = connections[c].preparedStatements
                      /\ StoredData(databases', files', target)
                            = StoredData(databases, files, target)
                      /\ TablesOf(databases', target) = TablesOf(databases, target)]_vars

\* C6: no packet of a client terminates the process, and none changes the
\* session state of another connection.
C6_NoCrashNoInterference ==
    [][/\ ~crashed'
       /\ last'.kind = "data" =>
             \A d \in DOMAIN connections : d # last'.conn => connections'[d] = connections[d]]_vars

\* C7: a handshake response in which a field offset runs past the end of
\* the payload gets no reply, and the connection is closed and never Ready.
C7_MalformedHandshakeDropped ==
    last.kind = "data" =>
        \A i \in DOMAIN last.received :
            (last.received[i].mode = "handshake" /\ OffsetPastEnd(last.received[i].payload)) =>
                /\ RepliesTo(last, i) = << >>
                /\ connections[last.conn].state # "ready"
                /\ crashed \/ connections[last.conn].socket # "open"

\* The commands of the model that make the server open the store of "x".
OpensUnopenable(payload, conn) ==
    \/ payload = PayloadOf(INIT_DB_X)
    \/ payload = PayloadOf(Query(SQL_CREATE_DB_X))
    \/ /\ payload \in {PayloadOf(Query(SQL_SELECT_1)), PayloadOf(Query(SQL_CREATE_T))}
       /\ sanitizeDatabaseName(TargetOf(conn)) \in UnopenableFiles

\* C8: when the store of a database cannot be opened during USE/INIT_DB,
\* CREATE DATABASE or the first statement on it, the connection gets an
\* ERR packet and no OK, and the server keeps running.
C8_UnopenableStoreErr ==
    (last.kind = "data" /\ Len(last.received) = 1) =>
        \A i \in CommandsOf(last) :
            OpensUnopenable(last.received[i].payload, connections[last.conn]) =>
                /\ RepliesTo(last, i) # << >>
                /\ \A k \in DOMAIN RepliesTo(last, i) : RepliesTo(last, i)[k].pkt.type = "ERR"
                /\ ~crashed

\* C9: QUIT sends no reply and ends the session: no packet behind it (in
\* the same chunk or later) is executed, is answered or changes a
\* database, a prepared statement or the counter.
C9_NothingAfterQuit ==
    [][(/\ last'.kind = "data"
        /\ \/ connections[last'.conn].socket # "open"
           \/ /\ connections[last'.conn].state = "ready"
              /\ connections[last'.conn].buffer = << >>
              /\ last'.received # << >>
              /\ last'.received[1].payload = PayloadOf(QUIT)) =>
          LET c == last'.conn
          IN  /\ last'.out = << >>
              /\ connections'[c].socket # "open"
              /\ queryCount' = queryCount
              /\ databases' = databases
              /\ files' = files
              /\ connections'[c].preparedStatements = connections[c].preparedStatements
              /\ connections'[c].nextStatementId = connections[c].nextStatementId
              /\ connections'[c].currentDatabase = connections[c].currentDatabase]_vars


\* C10: on every connection the statement ids returned by the successful
\* STMT_PREPAREs are 1, 2, 3, ... in order, never reused; and no command
\* on one connection changes the registered statements, the bound
\* parameter types or the current database of another connection.
C10_StatementIds ==
    [][/\ \A c \in DOMAIN returnedIds' :
            returnedIds'[c] = [k \in 1..Len(returnedIds'[c]) |-> k]
       /\ last'.kind = "data" =>
            \A d \in DOMAIN connections :
                d # last'.conn =>
                    /\ connections'[d].preparedStatements = connections[d].preparedStatements
                    /\ connections'[d].currentDatabase = connections[d].currentDatabase]_vars

\* A STMT_CLOSE / STMT_EXECUTE packet that carries a statement id, and the id.
IsClose(payload) == Len(payload) >= 5 /\ payload[1] = MYSQL_COMMAND_STMT_CLOSE
IsExecute(payload) == Len(payload) >= 5 /\ payload[1] = MYSQL_COMMAND_STMT_EXECUTE
StatementIdOf(payload) == readUIntLE(payload, 1, 4)

\* The ids a connection has handed out and closed again.
ClosedIds(conn) == (1..(conn.nextStatementId - 1)) \ DOMAIN conn.preparedStatements

\* C11: STMT_CLOSE with a statement id removes exactly that statement from
\* the connection's registry and sends no packet, the other statements of
\* the connection stay as they are, and a later STMT_EXECUTE with the
\* closed id is answered with one ERR packet.
C11_CloseRemovesOne ==
    [][last'.kind = "data" =>
         LET c == last'.conn
             before == connections[c].preparedStatements
             after == connections'[c].preparedStatements
         IN  /\ (/\ Len(last'.received) = 1
                 /\ last'.received[1].mode = "ready"
                 /\ IsClose(last'.received[1].payload)) =>
                    /\ DOMAIN after = DOMAIN before \ {StatementIdOf(last'.received[1].payload)}
                    /\ \A id \in DOMAIN after : after[id] = before[id]
                    /\ last'.out = << >>
             /\ \A i \in CommandsOf(last') :
                    (/\ last'.received[i].socket = "open"
                     /\ IsExecute(last'.received[i].payload)
                     /\ StatementIdOf(last'.received[i].payload)
                            \in ClosedIds(connections[c])) =>
                        /\ Len(RepliesTo(last', i)) = 1
                        /\ RepliesTo(last', i)[1].pkt.type = "ERR"]_vars

\* The text of a QUERY packet, and the statement shapes executeSql tells apart.
IsQuery(payload) == Len(payload) > 0 /\ payload[1] = MYSQL_COMMAND_QUERY
QueryText(payload) == trim(subarray(payload, 1, Len(payload)))
QueryUpper(payload) == toUpperCase(QueryText(payload))
IsCreateDatabase(payload) ==
    IsQuery(payload) /\ startsWith(QueryUpper(payload), TXT_CREATE_DATABASE)
CreatedName(payload) ==
    trim(stripOneSemicolon(subarray(QueryText(payload), 15, Len(QueryText(payload)))))
UsedName(payload) ==
    trim(stripOneSemicolon(subarray(QueryText(payload), 4, Len(QueryText(payload)))))

Openable(name) == sanitizeDatabaseName(name) \notin UnopenableFiles

\* The database names a packet refers to when it arrives alone on a
\* connection: the handshake database, the name of USE / INIT_DB, the
\* current database of SHOW TABLES and DESCRIBE, and for every other
\* statement the connection's database ("default" when none is selected)
\* and the name CREATE DATABASE gives.
ReferencesOfQuery(payload, conn) ==
    IF QueryText(payload) = << >> \/ QueryUpper(payload) = TXT_SHOW_DATABASES THEN {}
    ELSE IF startsWith(QueryUpper(payload), TXT_USE_) THEN {UsedName(payload)} \ {<< >>}
    ELSE IF QueryUpper(payload) = TXT_SHOW_TABLES \/ describeMatch(QueryText(payload)) # << >>
    THEN {conn.currentDatabase} \ {Null}
    ELSE IF ~Openable(TargetOf(conn)) THEN {}
    ELSE {TargetOf(conn)}
         \cup (IF IsCreateDatabase(payload) THEN {CreatedName(payload)} ELSE {})

ReferencesOfHandshake(parsed) ==
    IF parsed.threw THEN {} ELSE {parsed.databaseName} \ {Null, << >>}

References(r, conn) ==
    IF r.mode = "handshake" THEN ReferencesOfHandshake(parseHandshakeResponse(r.payload))
    ELSE IF r.mode # "ready" \/ r.payload = << >> THEN {}
    ELSE IF r.payload[1] = MYSQL_COMMAND_INIT_DB
    THEN {subarray(r.payload, 1, Len(r.payload))} \ {<< >>}
    ELSE IF IsQuery(r.payload) THEN ReferencesOfQuery(r.payload, conn)
    ELSE {}

\* C12: the registry never holds two entries (open handles) for one logical
\* database name; an entry, once made, stays and is reused by every later
\* reference from any connection; the first reference to a name (handshake
\* database, USE/INIT_DB, CREATE DATABASE, a query) makes its entry; and
\* CREATE DATABASE of a name the registry already knows returns OK.
C12_OneHandlePerName ==
    [][/\ \A i \in DOMAIN databases' : \A j \in DOMAIN databases' :
            databases'[i].name = databases'[j].name => i = j
       /\ \A i \in DOMAIN databases :
            /\ i \in DOMAIN databases'
            /\ databases'[i].name = databases[i].name
            /\ databases'[i].sanitized = databases[i].sanitized
       /\ (last'.kind = "data" /\ Len(last'.received) = 1) =>
            /\ \A name \in References(last'.received[1], connections[last'.conn]) :
                    Openable(name) => DatabaseIndex(databases', name) # 0
            /\ (/\ last'.received[1].mode = "ready"
                /\ IsCreateDatabase(last'.received[1].payload)
                /\ DatabaseIndex(databases, CreatedName(last'.received[1].payload)) # 0
                /\ Openable(TargetOf(connections[last'.conn]))) =>
                    /\ Len(last'.jobs) = 1
                    /\ ~last'.jobs[1].reply.rejected
                    /\ Len(last'.jobs[1].reply.packets) = 1
                    /\ last'.jobs[1].reply.packets[1].type = "OK"]_vars

\* Connection 2, with no database selected, has sent CREATE DATABASE d after
\* another connection had made d known: d's entry precedes that of "default".
C12_Witness ==
    /\ last.kind = "data"
    /\ last.conn = 2
    /\ Len(last.received) = 1
    /\ last.received[1].payload = PayloadOf(Query(SQL_CREATE_DB_D))
    /\ Len(databases) = 2
    /\ databases[1].name = <<100>>
    /\ databases[2].name = TXT_default

\* C13: logical database names map one-to-one to backing store files: two
\* distinct names of the registry never refer to the same file (a statement
\* reads and writes the tables of the file its database name refers to, so
\* a table created through one name is then not visible through another).
C13_NamesOneToOneFiles ==
    \A i \in DOMAIN databases : \A j \in DOMAIN databases :
        databases[i].name # databases[j].name =>
            databases[i].sanitized # databases[j].sanitized

\* The statement a QUERY or STMT_EXECUTE packet makes executeSql run.
StatementOf(payload, conn) ==
    IF IsQuery(payload) THEN QueryText(payload)
    ELSE IF IsExecute(payload) /\ StatementIdOf(payload) \in DOMAIN conn.preparedStatements
    THEN trim(conn.preparedStatements[StatementIdOf(payload)].sql)
    ELSE << >>

\* CREATE / INSERT / UPDATE / DELETE, CREATE DATABASE apart.
IsMutating(text) ==
    /\ \E w \in {TXT_CREATE, TXT_INSERT, TXT_UPDATE, TXT_DELETE} :
            startsWith(toUpperCase(text), w)
    /\ ~startsWith(toUpperCase(text), TXT_CREATE_DATABASE)

\* What the engine holds in a file: the tables in creation order, each with
\* its ordered column names and the number of its rows.
EngineContents(content) ==
    [k \in 1..Len(content) |->
        [name |-> content[k].name, columns |-> content[k].columns,
         rowCount |-> Len(content[k].rows)]]

\* The job of the last callback is a mutating statement that succeeded on
\* the connection's database, which no command of the chunk has changed.
MutatedOk(event, j, before, after) ==
    /\ IsMutating(StatementOf(event.received[event.jobs[j].n].payload, before))
    /\ event.jobs[j].reply.kind = "packets"
    /\ Len(event.jobs[j].reply.packets) = 1
    /\ event.jobs[j].reply.packets[1].type = "OK"
    /\ after.currentDatabase = before.currentDatabase

\* The rows of a result set written in reply to the n-th packet.
RowsOf(event, n) ==
    LET rows == SelectSeq(RepliesTo(event, n), LAMBDA e : e.pkt.type = "ROW")
    IN  [k \in 1..Len(rows) |-> rows[k].pkt.info.values]

IsResultSet(event, n) ==
    RepliesTo(event, n) # << >> /\ RepliesTo(event, n)[1].pkt.type = "COLUMN_COUNT"

\* The table a DESCRIBE names, as the engine holds it in the current
\* database of the connection (0: no such table).
DescribedTable(payload, conn, dbs, fs) ==
    TableNamed(fs[FileOf(dbs, conn.currentDatabase)], describeMatch(QueryText(payload)))

\* C14: after every successful CREATE/INSERT/UPDATE/DELETE statement on a
\* database, the metadata cache of that database (table names, ordered
\* column names, row count per table) equals what the engine holds, the
\* metrics snapshot reports these tables and row counts, and a DESCRIBE
\* reports the columns the engine holds.
C14_CacheFollowsMutation ==
    [][last'.kind = "data" =>
         LET c == last'.conn
             target == TargetOf(connections[c])
         IN  /\ \A j \in DOMAIN last'.jobs :
                  MutatedOk(last', j, connections[c], connections'[c]) =>
                    /\ DatabaseIndex(databases', target) # 0
                    /\ TablesOf(databases', target)
                          = EngineContents(files'[FileOf(databases', target)])
                    /\ LET reported ==
                              buildMetricsSnapshot(databases', queryCount')
                                  .databases[DatabaseIndex(databases', target)].tables
                           held == files'[FileOf(databases', target)]
                       IN  /\ Len(reported) = Len(held)
                           /\ \A k \in DOMAIN held :
                                 /\ reported[k].name = held[k].name
                                 /\ reported[k].columnCount = Len(held[k].columns)
                                 /\ reported[k].rowCount = Len(held[k].rows)
             /\ (/\ Len(last'.received) = 1
                 /\ last'.received[1].mode = "ready"
                 /\ IsQuery(last'.received[1].payload)
                 /\ describeMatch(QueryText(last'.received[1].payload)) # << >>
                 /\ IsResultSet(last', 1)) =>
                    LET t == DescribedTable(last'.received[1].payload, connections'[c],
                                            databases', files')
                    IN  /\ t # 0
                        /\ RowsOf(last', 1) =
                              [k \in 1..Len(files'[FileOf(databases', target)][t].columns) |->
                                 <<TextValue(files'[FileOf(databases', target)][t].columns[k])>>]]_vars

\* An INSERT has succeeded on a table that held a row already, and the
\* cache of the connection's database counts two rows.
C14_Witness ==
    /\ last.kind = "data"
    /\ Len(last.received) = 1
    /\ last.received[1].payload = PayloadOf(Query(SQL_INSERT_T))
    /\ Len(last.out) = 1
    /\ last.out[1].pkt.type = "OK"
    /\ DatabaseIndex(databases, TargetOf(connections[last.conn])) # 0
    /\ TablesOf(databases, TargetOf(connections[last.conn])) # << >>
    /\ TablesOf(databases, TargetOf(connections[last.conn]))[1].rowCount = 2

\* The commands that only read the tables: SELECT, SHOW DATABASES, SHOW
\* TABLES, DESCRIBE, USE / INIT_DB, PING, STMT_PREPARE and STMT_CLOSE.
IsReadOnlyQuery(payload) ==
    \/ startsWith(QueryUpper(payload), TXT_SELECT)
    \/ startsWith(QueryUpper(payload), TXT_USE_)
    \/ QueryUpper(payload) \in {TXT_SHOW_DATABASES, TXT_SHOW_TABLES}
    \/ describeMatch(QueryText(payload)) # << >>

IsReadOnly(r) ==
    /\ r.mode = "ready"
    /\ r.payload # << >>
    /\ \/ r.payload[1] \in {MYSQL_COMMAND_INIT_DB, MYSQL_COMMAND_PING,
                            MYSQL_COMMAND_STMT_PREPARE, MYSQL_COMMAND_STMT_CLOSE}
       \/ IsQuery(r.payload) /\ IsReadOnlyQuery(r.payload)

\* C15: the cached tables, columns and row counts of a database change only
\* by CREATE/INSERT/UPDATE/DELETE statements: SELECT, SHOW DATABASES, SHOW
\* TABLES, DESCRIBE, USE/INIT_DB, PING and prepared-statement prepare and
\* close leave the metadata cache of every database as it was.
C15_ReadsKeepCache ==
    [][(/\ last'.kind = "data"
        /\ \A i \in DOMAIN last'.received : IsReadOnly(last'.received[i])) =>
          \A k \in DOMAIN databases : databases'[k].tables = databases[k].tables]_vars

IsShowTables(payload) == IsQuery(payload) /\ QueryUpper(payload) = TXT_SHOW_TABLES
IsDescribe(payload) == IsQuery(payload) /\ describeMatch(QueryText(payload)) # << >>

\* The reply to the n-th packet is one ERR packet with this message.
IsErrReply(event, n, message) ==
    /\ Len(RepliesTo(event, n)) = 1
    /\ RepliesTo(event, n)[1].pkt.type = "ERR"
    /\ RepliesTo(event, n)[1].pkt.info.message = message

\* C16: SHOW TABLES or DESCRIBE on a connection that has no selected
\* database is answered with the ERR "No database selected" and creates no
\* database entry; DESCRIBE of a table the current database does not have
\* is answered with the ERR "Unknown table '<name>'"; DESCRIBE of a table
\* it has is answered with one row per column, in column order.
C16_ShowAndDescribe ==
    [][(/\ last'.kind = "data"
        /\ last'.received # << >>
        /\ last'.received[1].mode = "ready"
        /\ last'.received[1].socket = "open") =>
          LET payload == last'.received[1].payload
              conn == connections[last'.conn]
          IN  /\ ((IsShowTables(payload) \/ IsDescribe(payload))
                      /\ conn.currentDatabase = Null) =>
                    /\ IsErrReply(last', 1, Message("No database selected", << >>))
                    /\ Len(last'.received) = 1 => databases' = databases
              /\ (/\ IsDescribe(payload)
                  /\ conn.currentDatabase # Null
                  /\ Openable(conn.currentDatabase)) =>
                    LET t == DescribedTable(payload, conn, databases', files')
                        held == files'[FileOf(databases', conn.currentDatabase)]
                    IN  /\ t = 0 =>
                              IsErrReply(last', 1,
                                         Message("Unknown table",
                                                 describeMatch(QueryText(payload))))
                        /\ t # 0 =>
                              /\ IsResultSet(last', 1)
                              /\ RowsOf(last', 1) =
                                    [k \in 1..Len(held[t].columns) |->
                                        <<TextValue(held[t].columns[k])>>]]_vars

\* The rows of the table items in the file a connection's statements run
\* on (none without the file or the table).
ItemRows(fs, conn) ==
    LET file == sanitizeDatabaseName(TargetOf(conn))
        content == IF file \in DOMAIN fs THEN fs[file] ELSE << >>
        t == TableNamed(content, TXT_items)
    IN  IF t = 0 THEN << >> ELSE content[t].rows

\* The number of rows that were added, removed or altered.
RowsChanged(old, new) ==
    Cardinality({k \in 1..Max(Len(old), Len(new)) :
                    k > Len(old) \/ k > Len(new) \/ old[k] # new[k]})

IsOkReply(event, n) ==
    Len(RepliesTo(event, n)) = 1 /\ RepliesTo(event, n)[1].pkt.type = "OK"

AffectedRows(event, n) == RepliesTo(event, n)[1].pkt.info.affectedRows

\* The names of the columns a result set announces.
ColumnsOf(event, n) ==
    LET columns == SelectSeq(RepliesTo(event, n), LAMBDA e : e.pkt.type = "COLUMN")
    IN  [k \in 1..Len(columns) |-> columns[k].pkt.info.name]

\* One client has logged in on the fresh server and has sent the first k
\* statements of the script, each in its turn: CREATE DATABASE demo, USE
\* demo, CREATE TABLE items(...), INSERT INTO items(name) VALUES('foo'),
\* SELECT * FROM items.
FreshSession(k) == nextConnectionId = 1 /\ events = k + 1 /\ queryCount = k

FreshSessionReplies ==
    /\ \A k \in 1..3 : FreshSession(k) => IsOkReply(last, 1) /\ AffectedRows(last, 1) = 0
    /\ FreshSession(4) => IsOkReply(last, 1) /\ AffectedRows(last, 1) = 1
    /\ FreshSession(5) =>
          /\ IsResultSet(last, 1)
          /\ ColumnsOf(last, 1) = <<TXT_id, TXT_name>>
          /\ RowsOf(last, 1) = << <<IntValue(1), TextValue(TXT_foo)>> >>

\* C17: the OK packet of a successful INSERT/UPDATE/DELETE carries the
\* number of rows the statement changed; CREATE DATABASE, USE and CREATE
\* TABLE report 0 affected rows; and on a fresh server the queries CREATE
\* DATABASE demo, USE demo, CREATE TABLE items(id INTEGER PRIMARY KEY, name
\* TEXT), INSERT INTO items(name) VALUES('foo'), SELECT * FROM items yield
\* OK(0), OK(0), OK(0), OK(1) and a result set with the columns id, name
\* and the single row 1, 'foo'.
C17_AffectedRows ==
    [][/\ (/\ last'.kind = "data"
           /\ Len(last'.received) = 1
           /\ last'.received[1].mode = "ready"
           /\ IsOkReply(last', 1)) =>
             LET conn == connections[last'.conn]
                 text == toUpperCase(StatementOf(last'.received[1].payload, conn))
             IN  /\ (\E w \in {TXT_INSERT, TXT_UPDATE, TXT_DELETE} : startsWith(text, w)) =>
                       AffectedRows(last', 1)
                          = RowsChanged(ItemRows(files, conn), ItemRows(files', conn))
                 /\ (startsWith(text, TXT_CREATE) \/ startsWith(text, TXT_USE_)) =>
                       AffectedRows(last', 1) = 0
       /\ FreshSessionReplies']_vars

\* The fresh session has run its five statements and the SELECT has
\* returned the row 1, 'foo'.
C17_Witness ==
    /\ FreshSession(5)
    /\ last.kind = "data"
    /\ last.received[1].payload = PayloadOf(Query(SQL_SELECT_ITEMS))
    /\ RowsOf(last, 1) = << <<IntValue(1), TextValue(TXT_foo)>> >>

\* The values the clients of the model bind in their STMT_EXECUTE packets.
BoundValues(payload) ==
    IF payload = PayloadOf(EXECUTE_BAR_1) THEN <<TextValue(TXT_bar), IntValue(1)>>
    ELSE <<NullValue, IntValue(1)>>

\* UPDATE items SET name = values[1] WHERE id = values[2]
UpdatedRows(rows, values) ==
    [k \in DOMAIN rows |-> IF rows[k][1] = values[2] THEN <<rows[k][1], values[1]>>
                           ELSE rows[k]]

HasItems(fs, conn) ==
    /\ sanitizeDatabaseName(TargetOf(conn)) \in DOMAIN fs
    /\ TableNamed(fs[sanitizeDatabaseName(TargetOf(conn))], TXT_items) # 0

\* The messages with which the engine refuses a number of values that is
\* not the number of placeholders of the statement.
IsCountMismatch(pkt) ==
    /\ pkt.type = "ERR"
    /\ pkt.info.message.text \in {"Too few parameter values were provided",
                                  "Too many parameter values were provided"}

\* One client has logged in on the fresh server and has sent the first k
\* statements of the script, each in its turn, the STMT_PREPARE among them.
PreparedSession(k) ==
    /\ nextConnectionId = 1
    /\ events = k + 1
    /\ queryCount = k - 1
    /\ 1 \in DOMAIN connections[1].preparedStatements

\* C18: executing a prepared statement binds the i-th decoded value to the
\* i-th placeholder, a parameter marked in the null bitmap as NULL: the
\* prepared UPDATE items SET name=? WHERE id=? executed with ("bar", 1) or
\* (NULL, 1) sets the name of the row with id 1 and of no other row, and
\* its OK carries the number of these rows; in the session that inserts the
\* row, the execute with ("bar", 1) returns OK with 1 affected row and the
\* following SELECT name FROM items WHERE id=1 returns "bar"; and the
\* engine never gets another number of values than the statement has
\* placeholders.
C18_ExecuteBindsInOrder ==
    [][(/\ last'.kind = "data"
        /\ Len(last'.received) = 1
        /\ last'.received[1].mode = "ready") =>
          LET payload == last'.received[1].payload
              conn == connections[last'.conn]
              rows == ItemRows(files, conn)
          IN  /\ (/\ payload \in {PayloadOf(EXECUTE_BAR_1), PayloadOf(EXECUTE_NULL_1)}
                  /\ last'.received[1].socket = "open"
                  /\ 1 \in DOMAIN conn.preparedStatements
                  /\ HasItems(files, conn)) =>
                    /\ IsOkReply(last', 1)
                    /\ AffectedRows(last', 1)
                          = Cardinality({k \in DOMAIN rows : rows[k][1] = IntValue(1)})
                    /\ ItemRows(files', conn) = UpdatedRows(rows, BoundValues(payload))
              /\ IsExecute(payload) =>
                    \A k \in DOMAIN last'.out : ~IsCountMismatch(last'.out[k].pkt)
              /\ PreparedSession(8)' =>
                    IsOkReply(last', 1) /\ AffectedRows(last', 1) = 1
              /\ PreparedSession(9)' =>
                    /\ IsResultSet(last', 1)
                    /\ RowsOf(last', 1) = << <<TextValue(TXT_bar)>> >>]_vars

\* The session has prepared the UPDATE, has executed it with ("bar", 1)
\* and has read the name of the row with id 1.
C18_Witness ==
    /\ PreparedSession(9)
    /\ last.kind = "data"
    /\ last.received[1].payload = PayloadOf(Query(SQL_SELECT_NAME))
    /\ RowsOf(last, 1) = << <<TextValue(TXT_bar)>> >>

\* The types with which the parameters of a statement are decoded: the
\* string type where none is stored.
EffectiveTypes(statement) ==
    [i \in 1..statement.paramCount |->
        IF statement.paramTypes[i].type = Undefined THEN DefaultParamType
        ELSE statement.paramTypes[i]]

\* The new-params-bound byte of a STMT_EXECUTE payload, behind the null
\* bitmap of the statement.
NewParamsBound(payload, statement) ==
    byteAt(payload, 10 + (statement.paramCount + 7) \div 8) \notin {Undefined, 0}

\* The callback has handled a STMT_EXECUTE of statement id of connection c
\* with the new-params-bound byte set.
BoundTypes(event, c, id, statement) ==
    /\ event.kind = "data"
    /\ event.conn = c
    /\ \E n \in DOMAIN event.received :
          /\ event.received[n].mode = "ready"
          /\ IsExecute(event.received[n].payload)
          /\ StatementIdOf(event.received[n].payload) = id
          /\ NewParamsBound(event.received[n].payload, statement)

\* C19: the types with which a statement decodes its parameters (the string
\* type while none was bound) change only in a callback that handles a
\* STMT_EXECUTE of that statement of that connection with the
\* new-params-bound byte non-zero; so an execute with the byte zero decodes
\* with the types of the last execute that had it set, and no statement
\* takes the types of another.
C19_TypesFollowFlag ==
    [][\A c \in DOMAIN connections \cap DOMAIN connections' :
         \A id \in DOMAIN connections[c].preparedStatements
                      \cap DOMAIN connections'[c].preparedStatements :
            EffectiveTypes(connections'[c].preparedStatements[id])
                  # EffectiveTypes(connections[c].preparedStatements[id])
               => BoundTypes(last', c, id, connections[c].preparedStatements[id])]_vars

\* The files a step has created or written.
WrittenFiles(before, after) ==
    {f \in DOMAIN after : f \notin DOMAIN before \/ before[f] # after[f]}

\* The last callback handled one QUERY with this text, alone in its chunk,
\* on a connection that stayed open.
RanQuery(event, sql) ==
    /\ event.kind = "data"
    /\ Len(event.received) = 1
    /\ event.received[1].mode = "ready"
    /\ event.received[1].socket = "open"
    /\ event.received[1].payload = PayloadOf(Query(sql))

\* C20: connections whose current database has the same logical name work
\* on one store.  A successful CREATE TABLE items(...) of any connection
\* puts the table into the file of the connection's database and a
\* successful INSERT INTO items(name) VALUES('foo') adds its row there,
\* and neither writes another file; a SELECT * FROM items of
\* any connection returns the rows that file holds, whichever connection
\* wrote them; and a step that writes a file is the callback of one
\* connection, leaves every other connection as it was, and ends with the
\* metadata cache of every database of a written file rebuilt from the
\* file, so no statement of another connection runs between the engine's
\* execution and the rebuild.
C20_SharedStore ==
    [][/\ (RanQuery(last', SQL_CREATE_ITEMS) /\ IsOkReply(last', 1)) =>
             /\ HasItems(files', connections[last'.conn])
             /\ WrittenFiles(files, files')
                    = {sanitizeDatabaseName(TargetOf(connections[last'.conn]))}
       /\ (RanQuery(last', SQL_INSERT_FOO) /\ IsOkReply(last', 1)) =>
             LET conn == connections[last'.conn]
                 rows == ItemRows(files, conn)
             IN  /\ ItemRows(files', conn)
                        = Append(rows, <<IntValue(NextId(rows)), TextValue(TXT_foo)>>)
                 /\ WrittenFiles(files, files') = {sanitizeDatabaseName(TargetOf(conn))}
       /\ (RanQuery(last', SQL_SELECT_ITEMS) /\ HasItems(files, connections[last'.conn])) =>
             /\ IsResultSet(last', 1)
             /\ RowsOf(last', 1) = ItemRows(files, connections[last'.conn])
       /\ WrittenFiles(files, files') # {} =>
             /\ last'.kind = "data"
             /\ \A d \in DOMAIN connections \ {last'.conn} : connections'[d] = connections[d]
             /\ \A i \in DOMAIN databases' :
                   databases'[i].sanitized \in WrittenFiles(files, files') =>
                      databases'[i].tables = EngineContents(files'[databases'[i].sanitized])]_vars

\* A connection that has prepared no statement reads the name "bar", which
\* only the connection that prepared the UPDATE can have written.
C20_Witness ==
    /\ RanQuery(last, SQL_SELECT_NAME)
    /\ RowsOf(last, 1) = << <<TextValue(TXT_bar)>> >>
    /\ DOMAIN connections[last.conn].preparedStatements = {}
    /\ \E d \in DOMAIN connections \ {last.conn} :
          /\ 1 \in DOMAIN connections[d].preparedStatements
          /\ TargetOf(connections[d]) = TargetOf(connections[last.conn])

\* The database name the handshake responses of the clients supply with
\* the connect-with-DB capability (none: the empty name).
SuppliedDatabase(payload) ==
    CASE payload = PayloadOf(HS_DB_D) -> <<100>>
      [] payload = PayloadOf(HS_DB_X) -> <<120>>
      [] payload = PayloadOf(HS_DB_A_MINUS_B) -> <<97, 45, 98>>
      [] payload = PayloadOf(HS_DB_A_UNDER_B) -> <<97, 95, 98>>
      [] payload = PayloadOf(HS_DB_DEMO) -> TXT_demo
      [] OTHER -> << >>

\* C21: a handshake response whose fields lie inside the payload is
\* answered with one OK and makes the connection Ready, whatever user name
\* and auth response it carries; with connect-with-DB and a non-empty
\* database name the connection's current database is that name and the
\* registry has an entry for it, otherwise the current database is unset.
C21_HandshakeAccepts ==
    [][last'.kind = "data" =>
         \A i \in DOMAIN last'.received :
            (last'.received[i].mode = "handshake"
                 /\ ~OffsetPastEnd(last'.received[i].payload)) =>
               LET name == SuppliedDatabase(last'.received[i].payload)
                   conn == connections'[last'.conn]
               IN  /\ Len(RepliesTo(last', i)) = 1
                   /\ RepliesTo(last', i)[1].pkt.type = "OK"
                   /\ conn.state = "ready"
                   /\ name # << >> =>
                         /\ conn.currentDatabase = name
                         /\ DatabaseIndex(databases', name) # 0
                   /\ name = << >> =>
                         /\ conn.currentDatabase = Null
                         /\ databases' = databases]_vars

IsInitDb(payload) == Len(payload) > 0 /\ payload[1] = MYSQL_COMMAND_INIT_DB
IsUse(payload) == IsQuery(payload) /\ startsWith(QueryUpper(payload), TXT_USE_)

\* The database name an INIT_DB packet or a USE query gives.
SelectedName(payload) ==
    IF IsInitDb(payload) THEN subarray(payload, 1, Len(payload)) ELSE UsedName(payload)

\* The n-th packet of the chunk is dispatched on an open socket and every
\* other packet of the chunk is a QUIT or a PING.
AmongQuitAndPing(event, n) ==
    /\ event.received[n].mode = "ready"
    /\ event.received[n].socket = "open"
    /\ \A k \in DOMAIN event.received \ {n} :
          event.received[k].payload \in {PayloadOf(QUIT), PayloadOf(PING)}

\* C22: INIT_DB or USE with a non-empty name (of a store that can be
\* opened) makes that name the connection's current database, leaves the
\* registry with an entry for it and is answered with one OK with 0
\* affected rows; with an empty name it is answered with one ERR and the
\* connection's current database and the registry stay as they were.
C22_UseDatabase ==
    [][last'.kind = "data" =>
         \A i \in DOMAIN last'.received :
            (/\ AmongQuitAndPing(last', i)
             /\ IsInitDb(last'.received[i].payload) \/ IsUse(last'.received[i].payload)) =>
               LET name == SelectedName(last'.received[i].payload)
                   c == last'.conn
               IN  /\ (name # << >> /\ Openable(name)) =>
                         /\ connections'[c].currentDatabase = name
                         /\ DatabaseIndex(databases', name) # 0
                         /\ IsOkReply(last', i)
                         /\ AffectedRows(last', i) = 0
                   /\ name = << >> =>
                         /\ Len(RepliesTo(last', i)) = 1
                         /\ RepliesTo(last', i)[1].pkt.type = "ERR"
                         /\ connections'[c].currentDatabase = connections[c].currentDatabase
                         /\ databases' = databases]_vars

\* encode: the bytes of the packets a callback handed on, framed again.
RECURSIVE FramesOf(_)
FramesOf(received) ==
    IF received = << >> THEN << >>
    ELSE ClientPacket(Head(received).seq, Head(received).payload) \o FramesOf(Tail(received))

\* The buffer holds no complete packet: fewer than 4 bytes, or fewer than
\* 4 + the declared length.
NeedMoreBytes(buffer) ==
    Len(buffer) < 4 \/ Len(buffer) < 4 + readUIntLE(buffer, 0, 3)

\* The bytes a connection had before a data event and the bytes its
\* client had written up to that event's chunk and behind it.
BytesWritten(c) ==
    IF clientPending[c] # << >> THEN {connections[c].buffer \o clientPending[c]}
    ELSE {connections[c].buffer \o stream : stream \in Streams(c)}

\* C23: framing does not depend on the chunks.  In every data event the
\* packets handed on, framed again with their sequence ids, followed by the
\* retained buffer and the bytes the socket has not delivered yet, are the
\* bytes retained before followed by the stream the client wrote; the
\* retained buffer holds no complete packet; and an event that completes
\* no packet changes nothing but the retained buffer and writes nothing.
C23_FramingIgnoresChunks ==
    [][(last'.kind = "data" /\ ~crashed') =>
         LET c == last'.conn
         IN  /\ FramesOf(last'.received) \o connections'[c].buffer \o clientPending'[c]
                    \in BytesWritten(c)
             /\ NeedMoreBytes(connections'[c].buffer)
             /\ \A i \in DOMAIN last'.received :
                   last'.received[i].length = Len(last'.received[i].payload)
             /\ last'.received = << >> =>
                   /\ connections'[c] = [connections[c] EXCEPT !.buffer = connections'[c].buffer]
                   /\ last'.out = << >>
                   /\ UNCHANGED <<databases, files, queryCount>>]_vars

\* A callback has handed on one packet and retains the header of the next,
\* whose payload the socket has not delivered yet.
C23_Witness ==
    /\ last.kind = "data"
    /\ Len(last.received) = 1
    /\ Len(connections[last.conn].buffer) = 4
    /\ clientPending[last.conn] # << >>

\* C24: every row of a result set written in reply to a STMT_EXECUTE is a
\* binary row, whatever statement was prepared, and every row written in
\* reply to a QUERY is a text row.
C24_RowEncoding ==
    last.kind = "data" =>
        \A k \in DOMAIN last.out :
            LET r == last.received[last.out[k].n]
            IN  r.mode = "ready" =>
                  /\ IsExecute(r.payload) => last.out[k].pkt.type # "ROW"
                  /\ IsQuery(r.payload) => last.out[k].pkt.type # "BINARY_ROW"

\* C25: writeLengthEncodedInteger writes a value below 0xFB as one byte,
\* below 0x10000 as 0xFC and 2 little-endian bytes, below 0x1000000 as 0xFD
\* and 3 bytes, and any other as 0xFE and 8 bytes; readLengthEncodedInteger
\* reads from these bytes the value written and the number of the bytes;
\* a lead byte 0xFB is read as NULL.
C25_LengthEncodedRoundTrip ==
    /\ last.kind = "writeLengthEncodedInteger" =>
          LET value == last.input
              written == last.returned.written
          IN  /\ value < 251 => written = <<value>>
              /\ (value >= 251 /\ value < 65536) =>
                    written = <<252, value % 256, value \div 256>>
              /\ (value >= 65536 /\ value < 16777216) =>
                    written = <<253, value % 256, (value \div 256) % 256, value \div 65536>>
              /\ value >= 16777216 =>
                    written = <<254, value % 256, (value \div 256) % 256,
                                (value \div 65536) % 256, value \div 16777216, 0, 0, 0, 0>>
              /\ last.returned.read =
                    [value |-> value, consumed |-> Len(written), threw |-> FALSE]
    /\ (last.kind = "readLengthEncodedInteger" /\ byteAt(last.input, 0) = 251) =>
          last.returned = [value |-> Undefined, consumed |-> 1, threw |-> FALSE]

\* The value 0x1000000 has been written with the lead byte 0xFE and read
\* back.
C25_Witness ==
    /\ last.kind = "writeLengthEncodedInteger"
    /\ last.input = 16777216
    /\ Len(last.returned.written) = 9
    /\ last.returned.read.value = 16777216

\* The number of '?' of a text that lie outside its quoted regions.  A
\* region opens with ', " or ` and closes with the next such quote; inside
\* ' and " a backslash escapes the character behind it.
RECURSIVE PlaceholdersOutsideQuotes(_, _, _, _)
PlaceholdersOutsideQuotes(sql, index, quote, escaped) ==
    IF index > Len(sql) THEN 0
    ELSE IF quote = 0
    THEN (IF sql[index] = 63 THEN 1 ELSE 0)
         + PlaceholdersOutsideQuotes(sql, index + 1,
                                     IF sql[index] \in {39, 34, 96} THEN sql[index] ELSE 0,
                                     FALSE)
    ELSE IF escaped THEN PlaceholdersOutsideQuotes(sql, index + 1, quote, FALSE)
    ELSE IF sql[index] = 92 /\ quote # 96
    THEN PlaceholdersOutsideQuotes(sql, index + 1, quote, TRUE)
    ELSE PlaceholdersOutsideQuotes(sql, index + 1,
                                   IF sql[index] = quote THEN 0 ELSE quote, FALSE)

\* Every backslash of the text lies inside a ' or " region, where it is
\* an escape.
RECURSIVE BackslashesInStrings(_, _, _, _)
BackslashesInStrings(sql, index, quote, escaped) ==
    IF index > Len(sql) THEN TRUE
    ELSE IF quote = 0
    THEN /\ sql[index] # 92
         /\ BackslashesInStrings(sql, index + 1,
                                 IF sql[index] \in {39, 34, 96} THEN sql[index] ELSE 0,
                                 FALSE)
    ELSE IF escaped THEN BackslashesInStrings(sql, index + 1, quote, FALSE)
    ELSE IF sql[index] = 92
    THEN quote # 96 /\ BackslashesInStrings(sql, index + 1, quote, TRUE)
    ELSE BackslashesInStrings(sql, index + 1,
                              IF sql[index] = quote THEN 0 ELSE quote, FALSE)

\* C26: the parameter count countStatementParameters infers is the number
\* of '?' outside the single-quoted, double-quoted and backtick-quoted
\* regions of the text, also with backslash-escaped quotes and with an
\* escaped backslash before a closing quote; it is 1 for
\* SELECT * FROM t WHERE a = ? AND b = '?'.
C26_CountsPlaceholders ==
    (last.kind = "countStatementParameters"
        /\ BackslashesInStrings(last.input, 1, 0, FALSE)) =>
            /\ last.returned = PlaceholdersOutsideQuotes(last.input, 1, 0, FALSE)
            /\ (last.input = SQL_WHERE => last.returned = 1)

\* The 64-bit integer the 8 bytes denote: unsigned, or in two's complement.
DenotedLonglong(buffer, unsignedFlag) ==
    LET bits == bitsLE(buffer, 0, 8)
        inverted == [i \in 1..64 |-> 1 - bits[i]]
    IN  IF unsignedFlag \/ bits[64] = 0
        THEN [negative |-> FALSE, bits |-> trimBits(bits)]
        ELSE [negative |-> TRUE, bits |-> trimBits(addOne(inverted))]

\* C27: a LONGLONG parameter of 8 bytes is decoded to the 64-bit integer
\* the bytes denote, signed or unsigned as the flag says, also above 2^53,
\* and 8 bytes are consumed.
C27_LonglongExact ==
    (last.kind = "parseBinaryParameterValue" /\ Len(last.input.buffer) = 8) =>
        /\ ~last.returned.threw
        /\ last.returned.consumed = 8
        /\ last.returned.value
              = NumberValue(DenotedLonglong(last.input.buffer, last.input.unsignedFlag))

ShowsDatabases(event) ==
    /\ event.kind = "data"
    /\ Len(event.received) = 1
    /\ event.received[1].mode = "ready"
    /\ IsQuery(event.received[1].payload)
    /\ QueryUpper(event.received[1].payload) = TXT_SHOW_DATABASES

\* The packets are a result set of one column named Database with one text
\* row per name.
ListsNames(packets, names) ==
    /\ Len(packets) = Len(names) + 4
    /\ packets[1].type = "COLUMN_COUNT"
    /\ packets[1].info.count = 1
    /\ packets[2].type = "COLUMN"
    /\ packets[2].info.name = TXT_Database
    /\ packets[3].type = "EOF"
    /\ \A k \in 1..Len(names) :
          /\ packets[3 + k].type = "ROW"
          /\ packets[3 + k].info.values = <<TextValue(names[k])>>
    /\ packets[Len(names) + 4].type = "EOF"

\* C29: SHOW DATABASES returns a result set of one column with one row per
\* name of the registry, in the order of the registry, whether or not the
\* connection has a current database, and leaves the registry as it is.
C29_ShowDatabases ==
    [][ShowsDatabases(last') =>
          /\ databases' = databases
          /\ files' = files
          /\ Len(last'.jobs) = 1
          /\ last'.jobs[1].reply.kind = "packets"
          /\ ListsNames(last'.jobs[1].reply.packets,
                        [i \in 1..Len(databases) |-> databases[i].name])]_vars

\* A connection without a current database has listed two databases.
C29_Witness ==
    /\ ShowsDatabases(last)
    /\ connections[last.conn].currentDatabase = Null
    /\ Len(databases) = 2
    /\ Len(RowsOf(last, 1)) = 2

\* A STMT_PREPARE packet and its SQL text, trimmed.
IsPrepare(payload) == Len(payload) > 0 /\ payload[1] = MYSQL_COMMAND_STMT_PREPARE
PrepareText(payload) == trim(subarray(payload, 1, Len(payload)))

\* The reply to a packet with sequence id seq is a prepare-OK for statement
\* id, then the parameter definitions and an EOF if it announces
\* parameters, then the column definitions and an EOF if it announces
\* columns, with consecutive sequence ids.
PrepareOkLayout(reply, seq, id) ==
    /\ Len(reply) >= 1
    /\ reply[1].pkt.type = "PREPARE_OK"
    /\ reply[1].pkt.info.statementId = id
    /\ LET numParams == reply[1].pkt.info.numParams
           numColumns == reply[1].pkt.info.numColumns
           params == IF numParams > 0 THEN numParams + 1 ELSE 0
           columns == IF numColumns > 0 THEN numColumns + 1 ELSE 0
       IN  /\ Len(reply) = 1 + params + columns
           /\ \A k \in 1..numParams : reply[1 + k].pkt.type = "COLUMN"
           /\ numParams > 0 => reply[1 + params].pkt.type = "EOF"
           /\ \A k \in 1..numColumns : reply[1 + params + k].pkt.type = "COLUMN"
           /\ numColumns > 0 => reply[1 + params + columns].pkt.type = "EOF"
    /\ \A k \in DOMAIN reply : reply[k].pkt.seq = (seq + k) % 256

\* C30: on a connection that has not quit, a STMT_PREPARE of SQL that is
\* not empty is answered with a prepare-OK that carries the next statement
\* id of the connection, the parameter count and the column count, the
\* definitions and the EOF packets behind it, and the statement is
\* registered under that id with that parameter count; a STMT_PREPARE of
\* empty or blank SQL is answered with one ERR and leaves the statements
\* and the next id as they are.  The reply is that to the first command of
\* a chunk; the statements are compared where it is the only command.
C30_PrepareReply ==
    [][(/\ last'.kind = "data"
        /\ Len(last'.received) >= 1
        /\ last'.received[1].mode = "ready"
        /\ last'.received[1].socket = "open"
        /\ IsPrepare(last'.received[1].payload)) =>
          \A sql \in {PrepareText(last'.received[1].payload)} :
          \A reply \in {RepliesTo(last', 1)} :
              LET c == last'.conn
                  id == connections[c].nextStatementId
                  alone == Len(last'.received) = 1
              IN  IF sql = << >>
                  THEN /\ Len(reply) = 1
                       /\ reply[1].pkt.type = "ERR"
                       /\ alone =>
                             /\ connections'[c].preparedStatements
                                   = connections[c].preparedStatements
                             /\ connections'[c].nextStatementId = id
                  ELSE /\ PrepareOkLayout(reply, last'.received[1].seq, id)
                       /\ alone =>
                             /\ connections'[c].nextStatementId = id + 1
                             /\ DOMAIN connections'[c].preparedStatements
                                   = DOMAIN connections[c].preparedStatements \cup {id}
                             /\ connections'[c].preparedStatements[id].sql = sql
                             /\ connections'[c].preparedStatements[id].paramCount
                                   = reply[1].pkt.info.numParams]_vars

\* What the engine answers when it runs sql without parameters on the
\* database of the connection, the store being opened first.
EngineAnswerIn(opened, conn, sql) ==
    IF ~opened.ok THEN EngineThrow(<< >>, "unable to open database file", << >>)
    ELSE EngineExecute(opened.files[FileOf(opened.databases, TargetOf(conn))],
                       normalizedSql(sql), << >>)

EngineAnswer(dbs, fs, conn, sql) ==
    EngineAnswerIn(getDatabaseEntry(dbs, fs, TargetOf(conn)), conn, sql)

\* The statement is one handlePreparedStatementPrepare probes: a SELECT
\* in which it counts no placeholder.
IsProbed(sql) == countStatementParameters(sql) = 0 /\ startsWith(toUpperCase(sql), TXT_SELECT)

\* C31: a STMT_PREPARE of a SELECT without parameters that the engine
\* rejects (or whose store cannot be opened) is answered with one
\* prepare-OK that announces no column and no parameter, without an ERR,
\* and the statement is registered; a STMT_EXECUTE of a registered SELECT
\* without parameters that the engine rejects returns one ERR with the
\* engine's message; a STMT_PREPARE of a statement with parameters or of a
\* statement that is no SELECT leaves the registry and the stored data as
\* they are.  Each for a command that arrives alone in its chunk.
C31_PrepareBestEffort ==
    [][(/\ last'.kind = "data"
        /\ Len(last'.received) = 1
        /\ last'.received[1].mode = "ready"
        /\ last'.received[1].socket = "open") =>
          \A payload \in {last'.received[1].payload} :
          \A conn \in {connections[last'.conn]} :
            /\ (IsPrepare(payload) /\ PrepareText(payload) # << >>) =>
                 \A sql \in {PrepareText(payload)} :
                 \A reply \in {RepliesTo(last', 1)} :
                   /\ (IsProbed(sql) /\ ~EngineAnswer(databases, files, conn, sql).ok) =>
                        /\ ~crashed'
                        /\ Len(reply) = 1
                        /\ reply[1].pkt.type = "PREPARE_OK"
                        /\ reply[1].pkt.info.numColumns = 0
                        /\ reply[1].pkt.info.numParams = 0
                        /\ conn.nextStatementId
                              \in DOMAIN connections'[last'.conn].preparedStatements
                        /\ connections'[last'.conn].preparedStatements[conn.nextStatementId].sql
                              = sql
                   /\ ~IsProbed(sql) =>
                        /\ databases' = databases
                        /\ files' = files
            /\ (/\ IsExecute(payload)
                /\ StatementIdOf(payload) \in DOMAIN conn.preparedStatements
                /\ Openable(TargetOf(conn))) =>
                 \A sql \in {conn.preparedStatements[StatementIdOf(payload)].sql} :
                 \A answer \in {EngineAnswer(databases, files, conn, sql)} :
                   (IsProbed(sql) /\ ~answer.ok) =>
                        /\ ~crashed'
                        /\ Len(last'.jobs) = 1
                        /\ last'.jobs[1].reply.kind = "packets"
                        /\ Len(last'.jobs[1].reply.packets) = 1
                        /\ last'.jobs[1].reply.packets[1].type = "ERR"
                        /\ last'.jobs[1].reply.packets[1].info.message = answer.message]_vars

\* A prepared SELECT without parameters whose table is unknown has been
\* executed and answered with the engine's ERR; its prepare had announced
\* no column.
C31_Witness ==
    /\ last.kind = "data"
    /\ Len(last.received) = 1
    /\ last.received[1].socket = "open"
    /\ IsExecute(last.received[1].payload)
    /\ StatementIdOf(last.received[1].payload)
          \in DOMAIN connections[last.conn].preparedStatements
    /\ IsProbed(connections[last.conn].preparedStatements[
                    StatementIdOf(last.received[1].payload)].sql)
    /\ connections[last.conn].preparedStatements[
            StatementIdOf(last.received[1].payload)].columnNames = << >>
    /\ Len(last.jobs) = 1
    /\ last.jobs[1].reply.engineError
    /\ Len(RepliesTo(last, 1)) = 1
    /\ RepliesTo(last, 1)[1].pkt.type = "ERR"

\* The packets are a column count, that many column definitions, an EOF,
\* row packets and a final EOF.
ResultSetLayout(reply) ==
    /\ Len(reply) >= 3
    /\ reply[1].pkt.type = "COLUMN_COUNT"
    /\ LET nc == reply[1].pkt.info.count
           nr == Len(reply) - nc - 3
       IN  /\ nr >= 0
           /\ \A k \in 1..nc : reply[1 + k].pkt.type = "COLUMN"
           /\ reply[nc + 2].pkt.type = "EOF"
           /\ \A k \in 1..nr : reply[nc + 2 + k].pkt.type \in {"ROW", "BINARY_ROW"}
           /\ reply[nc + nr + 3].pkt.type = "EOF"

\* The text of a QUERY, or of the registered statement a STMT_EXECUTE
\* names, when it is a SELECT without parameters.
SelectsPlainly(payload, conn) ==
    /\ IsQuery(payload) \/ IsExecute(payload)
    /\ IsProbed(StatementOf(payload, conn))

\* The values of the row packets, text or binary, in the order written.
RowValuesOf(event, n) ==
    LET rows == SelectSeq(RepliesTo(event, n),
                          LAMBDA e : e.pkt.type \in {"ROW", "BINARY_ROW"})
    IN  [k \in 1..Len(rows) |-> rows[k].pkt.info.values]

\* The result set carries the columns and the rows of the engine's answer,
\* in its order.
CarriesAnswer(event, n, answer) ==
    /\ ColumnsOf(event, n) = answer.columns
    /\ RowValuesOf(event, n) = answer.rows
    /\ Len(RepliesTo(event, n)) = Len(answer.columns) + Len(answer.rows) + 3

\* C32: every reply that starts with a column count is a column count, one
\* column definition per column, an EOF, row packets and a final EOF; and
\* the reply to a SELECT the engine accepts (a QUERY, or a STMT_EXECUTE of
\* a statement without parameters, alone in its chunk) is such a result
\* set with the columns of the statement and one row packet for every row
\* of the engine, in the engine's order, also when there is no row.
C32_ResultSetLayout ==
    [][last'.kind = "data" =>
          /\ \A n \in DOMAIN last'.received :
                IsResultSet(last', n) => ResultSetLayout(RepliesTo(last', n))
          /\ (/\ Len(last'.received) = 1
              /\ last'.received[1].mode = "ready"
              /\ last'.received[1].socket = "open"
              /\ SelectsPlainly(last'.received[1].payload, connections[last'.conn])
              /\ Openable(TargetOf(connections[last'.conn]))) =>
                \A answer \in {EngineAnswer(databases, files, connections[last'.conn],
                                            StatementOf(last'.received[1].payload,
                                                        connections[last'.conn]))} :
                    answer.ok => /\ ResultSetLayout(RepliesTo(last', 1))
                                 /\ CarriesAnswer(last', 1, answer)]_vars

\* A SELECT on a table without rows has been answered with the column of
\* the table and no row.
C32_Witness ==
    /\ last.kind = "data"
    /\ Len(last.received) = 1
    /\ IsResultSet(last, 1)
    /\ SelectsPlainly(last.received[1].payload, connections[last.conn])
    /\ Len(RepliesTo(last, 1)) = 4
    /\ ColumnsOf(last, 1) = << <<97>> >>
    /\ RowsOf(last, 1) = << >>

\* Bit k of the byte.
BitOf(byte, k) == (byte \div (2 ^ k)) % 2

\* The bytes of the values of a row that are not NULL, each as its length
\* and its text, in the order of the columns (texts shorter than 251).
RECURSIVE EncodedValues(_)
EncodedValues(values) ==
    IF values = << >> THEN << >>
    ELSE (IF Head(values) = NullValue THEN << >>
          ELSE <<Len(stringValue(Head(values)))>> \o stringValue(Head(values)))
         \o EncodedValues(Tail(values))

\* C33: the binary row of n columns starts with the byte 0x00, then come
\* floor((n + 9) / 8) bytes of null bitmap in which bit (i + 2) is set
\* exactly when column i is NULL, then the encodings of the values that
\* are not NULL, in column order and nothing else.
C33_BinaryRowLayout ==
    last.kind = "buildBinaryRowPacket" =>
        LET n == Len(last.input)
            bitmapLength == (n + 9) \div 8
            row == last.returned
        IN  /\ Len(row) >= 1 + bitmapLength
            /\ row[1] = 0
            /\ \A i \in 0..(n - 1) :
                  (BitOf(row[2 + ((i + 2) \div 8)], (i + 2) % 8) = 1)
                      <=> (last.input[i + 1] = NullValue)
            /\ SubSeq(row, 2 + bitmapLength, Len(row)) = EncodedValues(last.input)

\* A row of seven columns, the seventh of them NULL (bit 8, the first bit
\* of the second bitmap byte), has been built.
C33_Witness ==
    /\ last.kind = "buildBinaryRowPacket"
    /\ Len(last.input) = 7
    /\ last.input[7] = NullValue
    /\ last.input[1] # NullValue
    /\ last.returned[3] = 1

\* C34: a DATE, DATETIME or TIMESTAMP parameter with length byte L (0, 4,
\* 7 or 11) and a TIME parameter with length byte L (0, 8 or 12) is
\* decoded from exactly 1 + L bytes, so the LONG parameter behind it is
\* decoded from its own four bytes; a parameter marked in the null bitmap
\* is decoded from no byte.
C34_TemporalConsumed ==
    last.kind = "decodeParameters" =>
        /\ ~last.returned.decoded.threw
        /\ Len(last.returned.decoded.values) = 2
        /\ last.returned.decoded.values[2] = IntValue(last.input.second)
        /\ IF last.input.isNull
           THEN last.returned.decoded.values[1] = NullValue
           ELSE /\ ~last.returned.first.threw
                /\ last.returned.first.consumed = 1 + last.input.length

\* A PING packet, and a packet whose command byte handleCommand does not
\* know.
IsPing(payload) == Len(payload) > 0 /\ payload[1] = MYSQL_COMMAND_PING
IsUnknownCommand(payload) ==
    /\ Len(payload) > 0
    /\ payload[1] \notin {MYSQL_COMMAND_QUIT, MYSQL_COMMAND_INIT_DB, MYSQL_COMMAND_QUERY,
                          MYSQL_COMMAND_PING, MYSQL_COMMAND_STMT_PREPARE,
                          MYSQL_COMMAND_STMT_EXECUTE, MYSQL_COMMAND_STMT_CLOSE}

\* C35: on a connection that has not quit, a PING is answered with exactly
\* one OK packet with the message "Pong" and a command with an unknown
\* command byte with exactly one ERR packet; a chunk that holds nothing but
\* such commands leaves the connection (its state, current database,
\* prepared statements, next statement id and socket), the registry with
\* its metadata caches, the files and the query count as they are.
C35_PingChangesNothing ==
    [][last'.kind = "data" =>
          /\ \A n \in DOMAIN last'.received :
                (last'.received[n].mode = "ready" /\ last'.received[n].socket = "open") =>
                    /\ IsPing(last'.received[n].payload) =>
                          /\ Len(RepliesTo(last', n)) = 1
                          /\ RepliesTo(last', n)[1].pkt.type = "OK"
                          /\ RepliesTo(last', n)[1].pkt.info.message = Message("Pong", << >>)
                    /\ IsUnknownCommand(last'.received[n].payload) =>
                          /\ Len(RepliesTo(last', n)) = 1
                          /\ RepliesTo(last', n)[1].pkt.type = "ERR"
          /\ (/\ last'.received # << >>
              /\ \A n \in DOMAIN last'.received :
                    /\ last'.received[n].mode = "ready"
                    /\ last'.received[n].socket = "open"
                    /\ \/ IsPing(last'.received[n].payload)
                       \/ IsUnknownCommand(last'.received[n].payload)) =>
                /\ [connections'[last'.conn] EXCEPT !.buffer = << >>]
                      = [connections[last'.conn] EXCEPT !.buffer = << >>]
                /\ databases' = databases
                /\ files' = files
                /\ queryCount' = queryCount
                /\ ~crashed']_vars

\* A PING has been answered on a connection that has a current database, a
\* prepared statement and a query counted.
C35_Witness ==
    /\ last.kind = "data"
    /\ Len(last.received) = 1
    /\ last.received[1].mode = "ready"
    /\ IsPing(last.received[1].payload)
    /\ Len(RepliesTo(last, 1)) = 1
    /\ connections[last.conn].currentDatabase # Null
    /\ connections[last.conn].preparedStatements # << >>
    /\ queryCount > 0
    /\ databases # << >>

\* SELECT, CREATE, INSERT, UPDATE or DELETE.
IsEngineStatement(text) ==
    \E w \in {TXT_SELECT, TXT_CREATE, TXT_INSERT, TXT_UPDATE, TXT_DELETE} :
        startsWith(toUpperCase(text), w)

\* A QUERY, or a STMT_EXECUTE of a registered statement that sends its
\* types and all its values.
IssuesStatement(payload, conn) ==
    \/ IsQuery(payload)
    \/ /\ payload \in {PayloadOf(EXECUTE_BAR_1), PayloadOf(EXECUTE_NULL_1)}
       /\ StatementIdOf(payload) \in DOMAIN conn.preparedStatements

\* What the file default.sqlite holds (nothing before it is created).
DefaultContent(fs) == IF TXT_default \in DOMAIN fs THEN fs[TXT_default] ELSE << >>

\* The names of the registry.
RegisteredNames(dbs) == {dbs[i].name : i \in DOMAIN dbs}

CountedCommands(event) ==
    {n \in DOMAIN event.received :
        /\ event.received[n].mode = "ready"
        /\ event.received[n].length > 0
        /\ event.received[n].payload[1] \in {MYSQL_COMMAND_INIT_DB, MYSQL_COMMAND_QUERY,
                                              MYSQL_COMMAND_STMT_EXECUTE}}

\* C37: the query count of the metrics snapshot grows in a data callback
\* by the number of INIT_DB, QUERY and STMT_EXECUTE commands the callback
\* received, whatever their replies and whichever the connection, and by
\* nothing for a handshake response, STMT_PREPARE, STMT_CLOSE, PING, QUIT
\* or an unknown command; accepting a connection and stop() leave it as it
\* is, and it decreases only in start().
C37_QueryCount ==
    [][/\ last'.kind = "data" =>
             buildMetricsSnapshot(databases', queryCount').queryCount
                = buildMetricsSnapshot(databases, queryCount).queryCount
                     + Cardinality(CountedCommands(last'))
       /\ last'.kind \in {"accept", "stop"} =>
             buildMetricsSnapshot(databases', queryCount').queryCount
                = buildMetricsSnapshot(databases, queryCount).queryCount
       /\ last'.kind # "start" => queryCount' >= queryCount]_vars

\* Two connections have each sent one counted command, the second of them
\* a STMT_EXECUTE that was answered with an ERR, and the snapshot counts 2.
C37_Witness ==
    /\ last.kind = "data"
    /\ last.conn = 2
    /\ Len(last.received) = 1
    /\ IsExecute(last.received[1].payload)
    /\ Len(RepliesTo(last, 1)) = 1
    /\ RepliesTo(last, 1)[1].pkt.type = "ERR"
    /\ buildMetricsSnapshot(databases, queryCount).queryCount = 2
    /\ events = 4

\* connection.currentDatabase || ""
SchemaOf(conn) == IF conn.currentDatabase = Null THEN << >> ELSE conn.currentDatabase

\* C38: the column definitions in the reply to a SELECT or a STMT_PREPARE
\* name as their schema the current database the connection had when the
\* command was received, whatever commands follow it in the same chunk.
\* The command is the first of its chunk, so the connection before the
\* callback is the session at its receipt.
C38_ReplyFromReceipt ==
    [][(/\ last'.kind = "data"
        /\ Len(last'.received) >= 1
        /\ last'.received[1].mode = "ready"
        /\ last'.received[1].socket = "open"
        /\ \/ IsPrepare(last'.received[1].payload)
           \/ /\ IsQuery(last'.received[1].payload)
              /\ startsWith(QueryUpper(last'.received[1].payload), TXT_SELECT)) =>
          \A reply \in {RepliesTo(last', 1)} :
          \A k \in DOMAIN reply :
              reply[k].pkt.type = "COLUMN" =>
                  reply[k].pkt.info.schema = SchemaOf(connections[last'.conn])]_vars

=============================================================================
